---------------------------- MODULE Spec2Model ----------------------------
(***************************************************************************)
(* graph-store: an entity store, a secondary-index engine and a            *)
(* relationship engine over one flat transactional key-value namespace     *)
(* (a Durable Object's storage), behind an in-memory read cache.           *)
(*                                                                         *)
(* Strings are sequences of tokens, so that concatenation is \o and the    *)
(* prefix listing of the KV backend is the prefix order on sequences.  The *)
(* fixed parts of a key ("idx:", "--", "relationship", "$", "-name") are   *)
(* one token each; user strings (entity keys, node ids, stringified        *)
(* property values) are one token per character.                           *)
(***************************************************************************)
EXTENDS Integers, Sequences, FiniteSets, TLC

VARIABLES
    kv,        \* state.storage: storage key -> stored value
    indexes,   \* IndexHandler.indexes: snapshot of the rows under "idx:"
    cache,     \* InMemoryReadCache.cache: storage key -> cached value
    last,      \* the last handler that returned: operation, request, result, values read
    steps,     \* number of handlers started so far
    run,       \* the batch removal in flight, if any
    tasks,     \* its concurrent clearAllRelationshipsForNode calls
    edges,     \* history: the edges created and not removed since
    reads,     \* the read handlers awaiting the storage (allowConcurrency)
    blobs,     \* GRAPH_STORAGE_BACKUP: blob name -> JSON text
    now,       \* Date.now()
    images,    \* history: blob name -> the storage its backup listed
    purged,    \* history: no mutating handler has run since purgeAllQuery returned
    transport  \* StorageClient.doOperation: the retry loop of the request in flight

vars ==
    <<kv, indexes, cache, last, steps, run, tasks, edges, reads, blobs, now, images, purged, transport>>

---------------------------------------------------------------------------
(* Bounds of the model. *)

MaxOps == 3        \* handlers run in one behaviour
MaxBatch == 2      \* entries of one batch request
MaxTime == 2       \* calls of backup() in one behaviour, one clock tick each
MaxCalls == 6      \* calls of the callback of retry for one request
MaxReads == 2      \* read handlers awaiting the storage at one time

---------------------------------------------------------------------------
(* Strings *)

Digit(d) ==
    CASE d = 0 -> "0" [] d = 1 -> "1" [] d = 2 -> "2" [] d = 3 -> "3"
      [] d = 4 -> "4" [] d = 5 -> "5" [] d = 6 -> "6" [] d = 7 -> "7"
      [] d = 8 -> "8" [] d = 9 -> "9"

\* String(n) of JavaScript for a natural number: its decimal digits.
RECURSIVE Str(_)
Str(n) == IF n < 10 THEN <<Digit(n)>> ELSE Str(n \div 10) \o <<Digit(n % 10)>>

DigitVal(c) == CHOOSE d \in 0..9 : Digit(d) = c

\* The number a canonical numeric string denotes (array-index order of keys).
RECURSIVE NumOf(_)
NumOf(s) ==
    IF s = <<>> THEN 0 ELSE NumOf(SubSeq(s, 1, Len(s) - 1)) * 10 + DigitVal(s[Len(s)])

\* String.prototype.startsWith
IsPrefix(p, s) == Len(p) <= Len(s) /\ SubSeq(s, 1, Len(p)) = p

---------------------------------------------------------------------------
(* Inputs *)

Keys == {Str(1), Str(12)}           \* entity keys "1" and "12"
Props == {"a", "b"}                 \* entity properties
Vals == {1, 12}                     \* property values

\* Entity payloads and patches: every record over a subset of Props.
Payloads == UNION {[S -> Vals] : S \in SUBSET Props}

\* Object.keys of an object whose keys are all canonical numeric strings:
\* ascending numeric order.
ObjectKeys(S) ==
    LET ranks == {[n \in nums |-> Cardinality({m \in nums : m < n})] :
                     nums \in {{NumOf(x) : x \in S}}}
    IN  CHOOSE keys \in {[i \in 1..Cardinality(DOMAIN rank) |->
                             Str(CHOOSE n \in DOMAIN rank : rank[n] = i - 1)] :
                            rank \in ranks} : TRUE

\* The entries of a batch request: a non-empty record keyed by entity key.
BatchEntries ==
    UNION {[S -> Payloads] : S \in {T \in SUBSET Keys : T # {} /\ Cardinality(T) <= MaxBatch}}

---------------------------------------------------------------------------
(* The KV backend: a finite map; a key is present iff in its domain. *)

EmptyMap == [k \in {} |-> k]

Has(m, k) == k \in DOMAIN m

Put(m, k, v) == [x \in DOMAIN m \cup {k} |-> IF x = k THEN v ELSE m[x]]

\* The entries win over the map's own.
PutAll(m, entries) == entries @@ m

Delete(m, ks) == [x \in DOMAIN m \ ks |-> m[x]]

\* storage.list({prefix}): the keys under a prefix.
List(m, prefix) == {k \in DOMAIN m : IsPrefix(prefix, k)}

ListMap(m, prefix) == [k \in List(m, prefix) |-> m[k]]

---------------------------------------------------------------------------
(* Index engine *)

IdxKey(property) == <<"idx:", property>>

IndexIds == {IdxKey(p) : p \in Props}

\* syncIndexes: the snapshot becomes the rows listed under "idx:".
SyncIndexes(store) == ListMap(store, <<"idx:">>)

\* keyForIndex: `${indexName}--${key}`
KeyForIndex(indexName, key) == <<indexName, "--">> \o key

\* `${value[property]}`: the stringified property, "undefined" when absent.
PropStr(value, property) ==
    IF property \in DOMAIN value THEN Str(value[property]) ELSE <<"undefined">>

\* getApplicableIndexes: the declarations found at idx:<property> for the
\* properties of the value.
GetApplicableIndexes(snapshot, properties) ==
    {snapshot[IdxKey(p)] : p \in {q \in properties : IdxKey(q) \in DOMAIN snapshot}}

\* getIndexedKeys: the index rows a value occupies.
GetIndexedKeys(snapshot, value) ==
    {KeyForIndex(ix.property, PropStr(value, ix.property)) :
        ix \in GetApplicableIndexes(snapshot, DOMAIN value)}

\* enhanceWritePayload: the storage keys written for (key, value): the
\* primary key and one index row per applicable index; each carries value.
EnhanceWritePayload(snapshot, key, value) ==
    [k \in {key} \cup GetIndexedKeys(snapshot, value) |-> value]

\* enhanceDeletePayload: for every declared index, `${property}--${key}`.
EnhanceDeletePayload(snapshot, key) ==
    {KeyForIndex(snapshot[i].property, key) : i \in DOMAIN snapshot}

\* computeDanglingKeys
ComputeDanglingKeys(snapshot, currentValue, updatedValue) ==
    GetIndexedKeys(snapshot, currentValue) \ GetIndexedKeys(snapshot, updatedValue)

---------------------------------------------------------------------------
(* Read cache and chunked KV.  Every request of the model has fewer keys   *)
(* than the chunk limit, so a chunked call is one backend call.            *)

\* cache.get(key) is used only for its truthiness: a key cached as undefined
\* (a miss recorded by doChunkedRead) is stored as absent.
CacheHit(c, key) == key \in DOMAIN c

\* An object literal that keeps the patch alone: { ...b }
MergeRight(a, b) == b

\* { ...a, ...b }
Merge(a, b) ==
    [p \in DOMAIN a \cup DOMAIN b |-> IF p \in DOMAIN b THEN b[p] ELSE a[p]]

\* { ...value, id: value.id ?? key }
WithId(value, key) ==
    IF "id" \in DOMAIN value THEN value ELSE Merge(value, [id |-> key])

\* The most keys of one call of the storage.
ITEM_LIMIT == 128

\* A chunking that keeps the first chunk and drops the keys beyond it.
ChunkFirst(keys, size) == <<SubSeq(keys, 1, IF Len(keys) <= size THEN Len(keys) ELSE size)>>

\* keys.length > ITEM_LIMIT ? chunk(keys, ITEM_LIMIT) : [keys]
RECURSIVE Chunk(_, _)
Chunk(keys, size) ==
    IF Len(keys) <= size THEN <<keys>>
    ELSE <<SubSeq(keys, 1, size)>> \o Chunk(SubSeq(keys, size + 1, Len(keys)), size)

\* doChunkedRead: cached values first, the rest from storage; the values
\* fetched are cached.  Returns the items found and the cache afterwards.
DoChunkedRead(store, c, keys) ==
    LET missing == {k \in keys : ~CacheHit(c, k)}
        fetched == [k \in missing \cap DOMAIN store |-> store[k]]
        hits == [k \in keys \cap DOMAIN c |-> c[k]]
    IN  [items |-> PutAll(hits, fetched), cache |-> PutAll(c, fetched)]

\* doChunkedWrite: clear the cache, put the entries, cache them.
DoChunkedWrite(store, c, entries) ==
    [kv |-> PutAll(store, entries), cache |-> entries]

\* doChunkedDelete: clear the cache, delete the keys.
DoChunkedDelete(store, c, keys) ==
    [kv |-> Delete(store, keys), cache |-> EmptyMap]

---------------------------------------------------------------------------
(* Relationship engine: keys and pure helpers *)

Nodes == Keys \cup {Str(2), Str(3)}         \* node ids "1", "12", "2" and "3"
Names == {<<"parent">>, <<"child">>}        \* directional names

\* id(relationshipName, node): `relationship$${node}$${relationshipName}`
Id(relationshipName, node) == <<"relationship", "$">> \o node \o <<"$">> \o relationshipName

\* prefix(node): `relationship$${node}`
Prefix(node) == <<"relationship", "$">> \o node

\* mappingId(relationshipName): `relationship-name$${relationshipName}`
MappingId(relationshipName) == <<"relationship", "-name", "$">> \o relationshipName

\* s.split('$'): the segments of s between its "$" tokens.
RECURSIVE Split(_)
Split(s) ==
    IF \A i \in 1..Len(s) : s[i] # "$" THEN <<s>>
    ELSE LET i == CHOOSE j \in 1..Len(s) :
                      s[j] = "$" /\ \A h \in 1..(j - 1) : s[h] # "$"
         IN  <<SubSeq(s, 1, i - 1)>> \o Split(SubSeq(s, i + 1, Len(s)))

\* id.split('$')[2]: the directional name of a neighbour-set key.
NameOfId(id) == Split(id)[3]

\* A RelationshipData value is a JavaScript Set: members in insertion order.
Members(set) == {set[i] : i \in 1..Len(set)}

SetAdd(set, x) == IF x \in Members(set) THEN set ELSE Append(set, x)

SetDelete(set, x) == SelectSeq(set, LAMBDA y : y # x)

\* (await get(id)) ?? new Set()
GetSet(store, id) == IF Has(store, id) THEN store[id] ELSE <<>>

\* addRelationship that stores a new set but never extends a stored one.
AddRelationshipNewSetOnly(store, id, relatedToId) ==
    IF Has(store, id) THEN store ELSE Put(store, id, <<relatedToId>>)

\* addRelationship, inside the transaction of createRelationship.
AddRelationship(store, id, relatedToId) ==
    Put(store, id, SetAdd(GetSet(store, id), relatedToId))

\* deleteRelationship that empties the set it was to take one member from.
DeleteRelationshipAll(store, id, relatedToId) == Put(store, id, <<>>)

\* deleteRelationship, inside the transaction of removeRelationship.
DeleteRelationship(store, id, relatedToId) ==
    Put(store, id, SetDelete(GetSet(store, id), relatedToId))

\* addRelationshipNameMapping: one put of an object with two keys; when the
\* two names are equal the later property of the literal wins.
AddRelationshipNameMapping(store, aToB, bToA) ==
    Put(Put(store, MappingId(aToB), bToA), MappingId(bToA), aToB)

\* parseBatchRequest
RelationsRight(input) ==
    [i \in 1..Len(input) |->
        <<Id(input[i].nodeAToBRelationshipName, input[i].nodeA), input[i].nodeB>>]

RelationsLeft(input) ==
    [i \in 1..Len(input) |->
        <<Id(input[i].nodeBToARelationshipName, input[i].nodeB), input[i].nodeA>>]

Sources(relations) == {relations[i][1] : i \in 1..Len(relations)}

\* The loop that starts every tuple from the set read, whatever the tuples
\* before it added: existing.get(source) ?? new Set()
RECURSIVE BatchUpdateFromRead(_, _, _, _)
BatchUpdateFromRead(relations, existing, update, add) ==
    IF relations = <<>> THEN update
    ELSE LET source == relations[1][1]
             target == relations[1][2]
             all == GetSet(existing, source)
             next == IF add THEN SetAdd(all, target) ELSE SetDelete(all, target)
         IN  BatchUpdateFromRead(Tail(relations), existing, Put(update, source, next), add)

\* The loop of addRelationshipBatch / deleteRelationshipBatch over the
\* tuples, from the sets read: update[source] ?? existing.get(source) ?? new Set()
RECURSIVE BatchUpdate(_, _, _, _)
BatchUpdate(relations, existing, update, add) ==
    IF relations = <<>> THEN update
    ELSE LET source == relations[1][1]
             target == relations[1][2]
             all == IF Has(update, source) THEN update[source]
                    ELSE GetSet(existing, source)
             next == IF add THEN SetAdd(all, target) ELSE SetDelete(all, target)
         IN  BatchUpdate(Tail(relations), existing, Put(update, source, next), add)

\* addRelationshipBatch on a world [kv, cache]
AddRelationshipBatch(w, relations) ==
    LET read == DoChunkedRead(w.kv, w.cache, Sources(relations))
        update == BatchUpdate(relations, read.items, EmptyMap, TRUE)
    IN  DoChunkedWrite(w.kv, read.cache, update)

\* deleteRelationshipBatch on a world [kv, cache]
DeleteRelationshipBatch(w, relations) ==
    LET read == DoChunkedRead(w.kv, w.cache, Sources(relations))
        update == BatchUpdate(relations, read.items, EmptyMap, FALSE)
    IN  DoChunkedWrite(w.kv, read.cache, update)

\* hasRelationship: NotFound when no set is stored for (nodeA, name).
HasRelationship(store, nodeA, nodeB, name) ==
    IF ~Has(store, Id(name, nodeA)) THEN [ok |-> FALSE, error |-> "NotFound"]
    ELSE [ok |-> TRUE, exists |-> nodeB \in Members(store[Id(name, nodeA)])]

\* listRelationship without pagination arguments: the stored set, or empty.
ListRelationship(store, name, node) == GetSet(store, Id(name, node))

\* Array.prototype.slice(start, end), positions counted from 0: a negative
\* position counts from the end, positions past the end are the end.
Slice(ids, start, end) ==
    LET n == Len(ids)
        from == IF start < 0 THEN (IF n + start < 0 THEN 0 ELSE n + start)
                ELSE (IF start > n THEN n ELSE start)
        to == IF end < 0 THEN (IF n + end < 0 THEN 0 ELSE n + end)
              ELSE (IF end > n THEN n ELSE end)
    IN  SubSeq(ids, from + 1, to)

\* A search that finds a missing id at the start.
FindIndexOrStart(ids, targetId) ==
    IF \E i \in 1..Len(ids) : ids[i] = targetId
    THEN (CHOOSE i \in 1..Len(ids) : ids[i] = targetId) - 1
    ELSE 0

\* ids.findIndex((r) => r === targetId): the position from 0, or -1.
FindIndex(ids, targetId) ==
    IF \E i \in 1..Len(ids) : ids[i] = targetId
    THEN (CHOOSE i \in 1..Len(ids) :
              ids[i] = targetId /\ \A j \in 1..(i - 1) : ids[j] # targetId) - 1
    ELSE -1

BadRequest == [ok |-> FALSE, error |-> "BadRequest"]

\* paginateRelationships over the members in insertion order.  An absent
\* argument is 0 (first, last: lastN) or the empty string (before, after): the code
\* tests the arguments for truthiness.  The list is sliced only where `first`
\* or `last` is given.
PaginateRelationships(relationships, first, lastN, before, after) ==
    IF (first # 0 /\ before # <<>>) \/ (lastN # 0 /\ after # <<>>) \/ (first # 0 /\ lastN # 0)
    THEN BadRequest
    ELSE IF after # <<>> /\ FindIndex(relationships, after) = -1
    THEN [ok |-> FALSE, error |-> "NotFound"]
    ELSE IF before # <<>> /\ FindIndex(relationships, before) = -1
    THEN [ok |-> FALSE, error |-> "NotFound"]
    ELSE LET length == Len(relationships)
             startAtIdx == IF after # <<>> THEN FindIndex(relationships, after) + 1 ELSE 0
             endAtIdx == IF before # <<>> THEN FindIndex(relationships, before) - 1
                         ELSE length - 1
             endAfterFirst == IF first # 0 THEN startAtIdx + first - 1 ELSE endAtIdx
             idsAfterFirst == IF first # 0
                              THEN Slice(relationships, startAtIdx, endAfterFirst + 1)
                              ELSE relationships
             startAfterLast == IF lastN # 0 THEN endAfterFirst - lastN + 1 ELSE startAtIdx
             idsAfterLast == IF lastN # 0
                             THEN Slice(idsAfterFirst, startAfterLast, endAfterFirst + 1)
                             ELSE idsAfterFirst
         IN  [ok |-> TRUE,
              value |-> [relationships |-> idsAfterLast,
                         hasBefore |-> startAfterLast > 0,
                         hasAfter |-> endAfterFirst < length - 1]]

---------------------------------------------------------------------------
(* clearAllRelationshipsForNode.  Inside one transaction: list the sets    *)
(* under prefix(node), read the name mappings, plan the mirror updates,    *)
(* then delete the listed sets (a transaction write, applied at commit)    *)
(* and run deleteRelationshipBatch (reads and writes the storage itself).  *)

\* A set as a sequence, in some order.
RECURSIVE SeqOf(_)
SeqOf(S) == IF S = {} THEN <<>> ELSE LET x == CHOOSE y \in S : TRUE IN <<x>> \o SeqOf(S \ {x})

\* relationsRightIds: the keys listed under prefix(node).
RelationsRightIds(store, node) == List(store, Prefix(node))

\* relationsLeftIds: for every listed set and every target in it, the mirror
\* set of the target under the reverse name, when a name mapping exists for
\* the name of the listed set; the member to remove is always `node`.  Every
\* tuple removes the same member, so their order does not matter.
RelationsLeftIds(store, node) ==
    SeqOf(UNION {{<<Id(store[MappingId(NameOfId(s))], t), node>> : t \in Members(store[s])} :
                    s \in {x \in RelationsRightIds(store, node) :
                              Has(store, MappingId(NameOfId(x)))}})

\* A call that returns without having removed anything.
ClearNothing(w, node) == w

\* The whole call, run without interleaving, on a world [kv, cache].
ClearAllRelationshipsForNode(w, node) ==
    LET rightIds == RelationsRightIds(w.kv, node)
        left == RelationsLeftIds(w.kv, node)
        written == DeleteRelationshipBatch(w, left)
    IN  [kv |-> Delete(written.kv, rightIds), cache |-> written.cache]

\* The calls for a list of nodes, one after the other.
RECURSIVE ClearAllInTurn(_, _)
ClearAllInTurn(w, nodes) ==
    IF nodes = <<>> THEN w
    ELSE ClearAllInTurn(ClearAllRelationshipsForNode(w, Head(nodes)), Tail(nodes))

---------------------------------------------------------------------------
(* Handlers.  A handler runs from dispatch to return in one step, except   *)
(* the batch removals, whose per-node cleanups interleave (see below).     *)

Idle == ~run.active /\ steps < MaxOps

\* `read` records what the handler read of the stored values before writing.
ReturnRead(op, req, res, read) ==
    /\ last' = [op |-> op, req |-> req, res |-> res, read |-> read]
    /\ steps' = steps + 1

Return(op, req, res) == ReturnRead(op, req, res, EmptyMap)

NotFound == [ok |-> FALSE, error |-> "NotFound"]
DeleteFailed == [ok |-> FALSE, error |-> "DeleteFailed"]
Ok(value) == [ok |-> TRUE, value |-> value]

(* ---- index handler ---- *)

\* createIndex: put { ...input, id: key } at idx:<property>, sync.
CreateIndex(property) ==
    /\ Idle
    /\ kv' = Put(kv, IdxKey(property), [id |-> IdxKey(property), property |-> property])
    /\ indexes' = SyncIndexes(kv')
    /\ Return("createIndex", [property |-> property], Ok(kv'[IdxKey(property)]))
    /\ UNCHANGED <<cache, run, tasks, edges, reads, blobs, now, images>>
    /\ purged' = FALSE /\ UNCHANGED transport

\* updateIndex: put { ...input, id: idx:<property> } at input.id, sync.
UpdateIndex(id, property) ==
    /\ Idle
    /\ kv' = Put(kv, id, [id |-> IdxKey(property), property |-> property])
    /\ indexes' = SyncIndexes(kv')
    /\ Return("updateIndex", [id |-> id, property |-> property], Ok(kv'[id]))
    /\ UNCHANGED <<cache, run, tasks, edges, reads, blobs, now, images>>
    /\ purged' = FALSE /\ UNCHANGED transport

\* removeIndex: delete input.id, sync.
RemoveIndex(id) ==
    /\ Idle
    /\ kv' = Delete(kv, {id})
    /\ indexes' = SyncIndexes(kv')
    /\ Return("removeIndex", [id |-> id], Ok(Has(kv, id)))
    /\ UNCHANGED <<cache, run, tasks, edges, reads, blobs, now, images>>
    /\ purged' = FALSE /\ UNCHANGED transport

(* ---- query handler ---- *)

\* keyFromQuery; an absent (or empty) argument is the empty string here.
\* With both absent the template gives "undefined--undefined".
KeyFromQuery(key, index) ==
    IF key # <<>> /\ index = <<>> THEN key
    ELSE IF index # <<>> /\ key = <<>> THEN index
    ELSE IF index = <<>> /\ key = <<>> THEN <<"undefined", "--", "undefined">>
    ELSE index \o <<"--">> \o key

\* readQuery: the cached value if any, else the stored one, else NotFound.
ReadQuery(store, c, key, index) ==
    LET k == KeyFromQuery(key, index)
    IN  IF CacheHit(c, k) THEN Ok(c[k])
        ELSE IF Has(store, k) THEN Ok(store[k])
        ELSE NotFound

\* listQuery without pagination or range arguments: the keys of the response
\* mapping, which holds one entry, keyed by the row's id, per row listed
\* under the prefix.
ListQueryIds(store, key, index) ==
    {store[k].id : k \in List(store, KeyFromQuery(key, index))}

\* createQuery
CreateQuery(key, payload) ==
    LET value == WithId(payload, key)
        items == EnhanceWritePayload(indexes, key, value)
    IN  /\ Idle
        /\ kv' = PutAll(kv, items)
        /\ cache' = EmptyMap
        /\ Return("create", [key |-> key, value |-> payload], Ok(value))
        /\ UNCHANGED <<indexes, run, tasks, edges, reads, blobs, now, images>>
        /\ purged' = FALSE /\ UNCHANGED transport

\* The loop of batchCreateQuery over the input keys: every row of every
\* input key gets the payload with id: payload.id ?? <the row's own key>.
\* A row written for several input keys keeps what the last of them wrote.
BatchCreateEntries(snapshot, input, inputKeys, entries) ==
    LET rows(i) == EnhanceWritePayload(snapshot, inputKeys[i], input[inputKeys[i]])
        writers(id) == {i \in 1..Len(inputKeys) : id \in DOMAIN rows(i)}
        lastOf(id) == CHOOSE i \in writers(id) : \A j \in writers(id) : j <= i
        mine == [id \in UNION {DOMAIN rows(i) : i \in 1..Len(inputKeys)} |->
                    WithId(rows(lastOf(id))[id], id)]
    IN  PutAll(entries, mine)

\* batchCreateQuery: returns the entries stored under the input keys.
BatchCreateQuery(input) ==
    /\ Idle
    /\ \E inputKeys \in {ObjectKeys(DOMAIN input)} :
       \E entries \in {BatchCreateEntries(indexes, input, inputKeys, EmptyMap)} :
           LET written == DoChunkedWrite(kv, EmptyMap, entries)
               fromInputKeys == [i \in 1..Len(inputKeys) |-> entries[inputKeys[i]]]
           IN  /\ kv' = written.kv
               /\ cache' = written.cache
               /\ Return("batchCreate", [entries |-> input], Ok(fromInputKeys))
               /\ UNCHANGED <<indexes, run, tasks, edges, reads, blobs, now, images>>
               /\ purged' = FALSE /\ UNCHANGED transport

\* updateQuery: NotFound without a current value; else put the merged value
\* under the primary key and its index rows, then delete the dangling rows.
UpdateQuery(key, patch) ==
    /\ Idle
    /\ cache' = EmptyMap
    /\ IF ~Has(kv, key)
       THEN /\ kv' = kv
            /\ Return("update", [key |-> key, value |-> patch], NotFound)
       ELSE LET currentValue == kv[key]
                updateValue == Merge(currentValue, patch)
                items == EnhanceWritePayload(indexes, key, updateValue)
                dangling == ComputeDanglingKeys(indexes, currentValue, updateValue)
            IN  /\ kv' = Delete(PutAll(kv, items), dangling)
                /\ ReturnRead("update", [key |-> key, value |-> patch], Ok(updateValue),
                              currentValue)
    /\ UNCHANGED <<indexes, run, tasks, edges, reads, blobs, now, images>>
    /\ purged' = FALSE /\ UNCHANGED transport

\* The rows enhanceWritePayload is asked for in doBatchUpdate: those of the
\* patch (input[key]), not of the merged value.
BatchUpdateRows(snapshot, key, updateValue, nextValue) ==
    DOMAIN EnhanceWritePayload(snapshot, key, updateValue)

\* The loop of doBatchUpdate over the keys: [entries, dangling].
RECURSIVE BatchUpdateLoop(_, _, _, _, _)
BatchUpdateLoop(snapshot, input, items, keys, acc) ==
    IF keys = <<>> THEN acc
    ELSE LET key == Head(keys)
             currentValue == IF Has(items, key) THEN items[key] ELSE [id |-> key]
             updateValue == input[key]
             nextValue == Merge(currentValue, updateValue)
             rows == BatchUpdateRows(snapshot, key, updateValue, nextValue)
             itemsDangling == ComputeDanglingKeys(snapshot, currentValue, nextValue)
         IN  BatchUpdateLoop(snapshot, input, items, Tail(keys),
                 [entries |-> PutAll(acc.entries, [k \in rows |-> nextValue]),
                  dangling |-> acc.dangling \cup itemsDangling])

\* items.size after doChunkedRead: the map holds an entry, possibly
\* undefined, for every key asked for.
ItemsSize(keys) == Len(keys)

\* doBatchUpdate
DoBatchUpdate(op, input, throwOnMissingKey) ==
    LET keys == ObjectKeys(DOMAIN input)
        read == DoChunkedRead(kv, EmptyMap, DOMAIN input)
    IN  /\ Idle
        /\ IF throwOnMissingKey /\ ItemsSize(keys) # Len(keys)
           THEN /\ kv' = kv
                /\ cache' = read.cache
                /\ Return(op, [entries |-> input], NotFound)
           ELSE LET loop == BatchUpdateLoop(indexes, input, read.items, keys,
                                           [entries |-> EmptyMap, dangling |-> {}])
                    written == DoChunkedWrite(kv, read.cache, loop.entries)
                    deleted == DoChunkedDelete(written.kv, written.cache, loop.dangling)
                IN  /\ kv' = deleted.kv
                    /\ cache' = deleted.cache
                    /\ ReturnRead(op, [entries |-> input],
                                  Ok([i \in 1..Len(keys) |-> loop.entries[keys[i]]]),
                                  read.items)
        /\ UNCHANGED <<indexes, run, tasks, edges, reads, blobs, now, images>>
        /\ purged' = FALSE /\ UNCHANGED transport

BatchUpdateQuery(input) == DoBatchUpdate("batchUpdate", input, TRUE)

BatchUpsertQuery(input) == DoBatchUpdate("batchUpsert", input, FALSE)

(* ---- history of edges ---- *)

\* The two directed halves of an edge or of a removal request.
Halves(e) ==
    {<<e.nodeA, e.nodeAToBRelationshipName, e.nodeB>>,
     <<e.nodeB, e.nodeBToARelationshipName, e.nodeA>>}

EdgesAfterRemove(es, requests) ==
    {e \in es : \A i \in 1..Len(requests) : Halves(e) \cap Halves(requests[i]) = {}}

EdgesAfterRemoveNodes(es, nodes) ==
    {e \in es : \A i \in 1..Len(nodes) : e.nodeA # nodes[i] /\ e.nodeB # nodes[i]}

(* ---- relationship handler ---- *)

Success == Ok([success |-> TRUE])

\* createRelationship: one transaction adding both directions and the name
\* mapping.
CreateRelationship(input) ==
    LET nodeAId == Id(input.nodeAToBRelationshipName, input.nodeA)
        nodeBId == Id(input.nodeBToARelationshipName, input.nodeB)
        s1 == AddRelationship(kv, nodeAId, input.nodeB)
        s2 == AddRelationship(s1, nodeBId, input.nodeA)
    IN  /\ Idle
        /\ kv' = AddRelationshipNameMapping(s2, input.nodeAToBRelationshipName,
                                            input.nodeBToARelationshipName)
        /\ cache' = EmptyMap
        /\ edges' = edges \cup {input}
        /\ Return("createRelationship", input, Success)
        /\ UNCHANGED <<indexes, run, tasks, reads, blobs, now, images>>
        /\ purged' = FALSE /\ UNCHANGED transport

\* createRelationshipBatch: addRelationshipBatch of the right tuples, then
\* of the left tuples.
CreateRelationshipBatch(input) ==
    LET w1 == AddRelationshipBatch([kv |-> kv, cache |-> EmptyMap], RelationsRight(input))
        w2 == AddRelationshipBatch(w1, RelationsLeft(input))
    IN  /\ Idle
        /\ kv' = w2.kv
        /\ cache' = w2.cache
        /\ edges' = edges \cup {input[i] : i \in 1..Len(input)}
        /\ Return("createRelationshipBatch", input, Success)
        /\ UNCHANGED <<indexes, run, tasks, reads, blobs, now, images>>
        /\ purged' = FALSE /\ UNCHANGED transport

\* removeRelationship: one transaction deleting both directions.
RemoveRelationship(input) ==
    LET nodeAId == Id(input.nodeAToBRelationshipName, input.nodeA)
        nodeBId == Id(input.nodeBToARelationshipName, input.nodeB)
        s1 == DeleteRelationship(kv, nodeAId, input.nodeB)
    IN  /\ Idle
        /\ kv' = DeleteRelationship(s1, nodeBId, input.nodeA)
        /\ cache' = EmptyMap
        /\ edges' = EdgesAfterRemove(edges, <<input>>)
        /\ ReturnRead("removeRelationship", input, Success,
                      [id \in {nodeAId, nodeBId} \cap DOMAIN kv |-> kv[id]])
        /\ UNCHANGED <<indexes, run, tasks, reads, blobs, now, images>>
        /\ purged' = FALSE /\ UNCHANGED transport

\* removeRelationshipBatch
RemoveRelationshipBatch(input) ==
    LET w1 == DeleteRelationshipBatch([kv |-> kv, cache |-> EmptyMap], RelationsRight(input))
        w2 == DeleteRelationshipBatch(w1, RelationsLeft(input))
    IN  /\ Idle
        /\ kv' = w2.kv
        /\ cache' = w2.cache
        /\ edges' = EdgesAfterRemove(edges, input)
        /\ Return("removeRelationshipBatch", input, Success)
        /\ UNCHANGED <<indexes, run, tasks, reads, blobs, now, images>>
        /\ purged' = FALSE /\ UNCHANGED transport

\* removeRelationshipNode
RemoveRelationshipNode(node) ==
    LET w == ClearAllRelationshipsForNode([kv |-> kv, cache |-> EmptyMap], node)
    IN  /\ Idle
        /\ kv' = w.kv
        /\ cache' = w.cache
        /\ edges' = EdgesAfterRemoveNodes(edges, <<node>>)
        /\ Return("removeNode", [node |-> node], Success)
        /\ UNCHANGED <<indexes, run, tasks, reads, blobs, now, images>>
        /\ purged' = FALSE /\ UNCHANGED transport

\* listRelationship: a read handler; the stored set, or an empty one,
\* paginated.
ListRelationshipQuery(input) ==
    /\ Idle
    /\ Return("listRelationship", input,
              PaginateRelationships(GetSet(kv, Id(input.name, input.node)),
                                    input.first, input.last, input.before, input.after))
    /\ UNCHANGED <<kv, indexes, cache, run, tasks, edges, reads, blobs, now, images, purged, transport>>

\* removeQuery: delete the primary key and `${property}--${key}` for every
\* index; DeleteFailed when nothing was deleted; else cascade removeNode.
RemoveQuery(key) ==
    LET keys == {key} \cup EnhanceDeletePayload(indexes, key)
        deleted == Cardinality(keys \cap DOMAIN kv)
        w == ClearAllRelationshipsForNode([kv |-> Delete(kv, keys), cache |-> EmptyMap], key)
    IN  /\ Idle
        /\ IF deleted = 0
           THEN /\ kv' = kv
                /\ cache' = EmptyMap
                /\ edges' = edges
                /\ Return("remove", [key |-> key], DeleteFailed)
           ELSE /\ kv' = w.kv
                /\ cache' = w.cache
                /\ edges' = EdgesAfterRemoveNodes(edges, <<key>>)
                /\ ReturnRead("remove", [key |-> key], Success,
                              ListMap(Delete(kv, keys), Prefix(key)))
        /\ UNCHANGED <<indexes, run, tasks, reads, blobs, now, images>>
        /\ purged' = FALSE /\ UNCHANGED transport

\* purgeAllQuery: storage.deleteAll(), after the cache is cleared.  The
\* snapshot of the index handler is not refreshed.
PurgeAllQuery ==
    /\ Idle
    /\ kv' = EmptyMap
    /\ cache' = EmptyMap
    /\ Return("purge", <<>>, Ok(TRUE))
    /\ purged' = TRUE /\ UNCHANGED transport
    /\ UNCHANGED <<indexes, run, tasks, edges, reads, blobs, now, images>>

(* ---- read handlers of the query handler ---- *)
(* A read that misses the cache issues storage.get or storage.list with    *)
(* allowConcurrency: the storage answers with the rows as they are when    *)
(* the call is issued, and until the answer arrives other handlers may run *)
(* from dispatch to return.  The read then caches what it fetched.         *)

\* An element of the array batchRead returns for a key without a value.
Undefined == [undefined |-> TRUE]

\* The value the cache holds for a listing: the Map of the rows listed.
Listing(items) == [list |-> items]

Pending(op, req, keys, items, fetched, missed) ==
    [op |-> op, req |-> req, keys |-> keys, items |-> items, fetched |-> fetched,
     missed |-> missed, pre |-> kv]

CanRead == Idle /\ Cardinality(reads) < MaxReads

\* readQuery up to its await: the cached value is returned at once; else
\* storage.get is issued.
ReadQueryStart(key, index) ==
    LET k == KeyFromQuery(key, index)
        req == [key |-> key, index |-> index]
        fetched == [x \in {k} \cap DOMAIN kv |-> kv[x]]
    IN  /\ CanRead
        /\ IF CacheHit(cache, k)
           THEN /\ ReturnRead("read", req, Ok(cache[k]), kv)
                /\ UNCHANGED reads
           ELSE /\ reads' = reads \cup {Pending("read", req, <<k>>, fetched, fetched, {})}
                /\ steps' = steps + 1
                /\ UNCHANGED last
        /\ UNCHANGED <<kv, indexes, cache, run, tasks, edges, blobs, now, images, purged, transport>>

\* readQuery after its await: NotFound without an item; else the item is
\* cached and returned.
ReadQueryFinish(r) ==
    /\ r \in reads /\ r.op = "read"
    /\ reads' = reads \ {r}
    /\ IF r.fetched = EmptyMap
       THEN /\ last' = [op |-> "read", req |-> r.req, res |-> NotFound, read |-> r.pre]
            /\ UNCHANGED cache
       ELSE /\ cache' = PutAll(cache, r.fetched)
            /\ last' = [op |-> "read", req |-> r.req, res |-> Ok(r.fetched[r.keys[1]]),
                        read |-> r.pre]
    /\ UNCHANGED <<kv, indexes, steps, run, tasks, edges, blobs, now, images, purged, transport>>

\* doChunkedRead over the chunks of the keys, up to the await of the
\* storage.get calls: the items found in the cache or fetched.
ChunkedItems(store, c, keys) ==
    LET chunks == Chunk(keys, ITEM_LIMIT)
        read(i) == DoChunkedRead(store, c, Members(chunks[i])).items
    IN  [k \in UNION {DOMAIN read(i) : i \in 1..Len(chunks)} |->
            read(CHOOSE i \in 1..Len(chunks) : k \in DOMAIN read(i))[k]]

\* batchReadQuery up to the await in doChunkedRead.
BatchReadStart(inputKeys, index) ==
    LET keys == [i \in 1..Len(inputKeys) |-> KeyFromQuery(inputKeys[i], index)]
        items == ChunkedItems(kv, cache, keys)
        fetched == [k \in {x \in DOMAIN items : ~CacheHit(cache, x)} |-> items[k]]
    IN  /\ CanRead
        /\ reads' = reads \cup {Pending("batchRead", [keys |-> inputKeys, index |-> index],
                                        keys, items, fetched, Members(keys) \ DOMAIN items)}
        /\ steps' = steps + 1
        /\ UNCHANGED <<kv, indexes, cache, last, run, tasks, edges, blobs, now, images,
                       purged, transport>>

\* batchReadQuery after the await: the values fetched are cached, a key
\* without a value is cached as undefined, and the array of the items in the
\* order of the keys is returned (mapToOrderedArray).
BatchReadFinish(r) ==
    /\ r \in reads /\ r.op = "batchRead"
    /\ reads' = reads \ {r}
    /\ cache' = Delete(PutAll(cache, r.fetched), r.missed)
    /\ last' = [op |-> "batchRead", req |-> r.req,
                res |-> Ok([i \in 1..Len(r.keys) |->
                               IF Has(r.items, r.keys[i]) THEN r.items[r.keys[i]]
                               ELSE Undefined]),
                read |-> r.pre]
    /\ UNCHANGED <<kv, indexes, steps, run, tasks, edges, blobs, now, images, purged, transport>>

\* listQuery without pagination or range arguments, up to the await of
\* storage.list under the prefix.
ListQueryStart(key, index) ==
    LET prefix == KeyFromQuery(key, index)
    IN  /\ CanRead
        /\ reads' = reads \cup {Pending("list", [key |-> key, index |-> index], <<prefix>>,
                                        ListMap(kv, prefix), EmptyMap, {})}
        /\ steps' = steps + 1
        /\ UNCHANGED <<kv, indexes, cache, last, run, tasks, edges, blobs, now, images,
                       purged, transport>>

\* listQuery after the await: the whole listing is cached under the prefix;
\* the response has one entry per id among the rows (its keys are returned
\* here).
ListQueryFinish(r) ==
    /\ r \in reads /\ r.op = "list"
    /\ reads' = reads \ {r}
    /\ cache' = Put(cache, r.keys[1], Listing(r.items))
    /\ last' = [op |-> "list", req |-> r.req,
                res |-> Ok({r.items[k].id : k \in DOMAIN r.items}), read |-> r.pre]
    /\ UNCHANGED <<kv, indexes, steps, run, tasks, edges, blobs, now, images, purged, transport>>

(* ---- batchList of the relationship handler ---- *)

\* The keys of a Map in the order they were first set.
RECURSIVE FirstSet(_)
FirstSet(keys) ==
    IF keys = <<>> THEN <<>>
    ELSE LET rest == FirstSet(SubSeq(keys, 1, Len(keys) - 1))
         IN  IF keys[Len(keys)] \in Members(rest) THEN rest
             ELSE Append(rest, keys[Len(keys)])

\* The orders in which the Map that storage.get(keys) returns may hold the
\* keys found.
Orders(S) == {order \in [1..Cardinality(S) -> S] : Members(order) = S}

EmptyPage == [relationships |-> <<>>, hasBefore |-> FALSE, hasAfter |-> FALSE]

\* batchListRelationships up to the await in doChunkedRead.  The Map of the
\* results holds the cached sets first, then the sets fetched, and last the
\* keys without a value; a key named twice is held once.
BatchListStart(input) ==
    LET keys == FirstSet([i \in 1..Len(input) |-> Id(input[i].name, input[i].node)])
        hits == SelectSeq(keys, LAMBDA k : CacheHit(cache, k))
        found == SelectSeq(keys, LAMBDA k : ~CacheHit(cache, k) /\ Has(kv, k))
        missed == SelectSeq(keys, LAMBDA k : ~CacheHit(cache, k) /\ ~Has(kv, k))
        read == DoChunkedRead(kv, cache, Members(keys))
    IN  /\ CanRead
        /\ \E order \in Orders(Members(found)) :
               reads' = reads \cup
                   {Pending("batchList", [requests |-> input], hits \o order \o missed,
                            read.items, [k \in Members(found) |-> kv[k]], Members(missed))}
        /\ steps' = steps + 1
        /\ UNCHANGED <<kv, indexes, cache, last, run, tasks, edges, blobs, now, images,
                       purged, transport>>

\* The loop of batchListRelationships: the idx-th result of the Map is paged
\* with the arguments of the idx-th request.  paginateRelationships throws
\* its errors, and the loop does not catch them.
BatchListPages(requests, order, items) ==
    LET page(idx) ==
            LET relationshipData == IF Has(items, order[idx]) THEN items[order[idx]] ELSE <<>>
                request == requests[idx]
            IN  IF relationshipData = <<>> THEN Ok(EmptyPage)
                ELSE PaginateRelationships(relationshipData, request.first, request.last,
                                           request.before, request.after)
        thrown == {idx \in 1..Len(order) : ~page(idx).ok}
    IN  IF thrown # {}
        THEN page(CHOOSE idx \in thrown : \A other \in thrown : idx <= other)
        ELSE Ok([idx \in 1..Len(order) |-> page(idx).value])

\* batchListRelationships after the await.
BatchListFinish(r) ==
    /\ r \in reads /\ r.op = "batchList"
    /\ reads' = reads \ {r}
    /\ cache' = Delete(PutAll(cache, r.fetched), r.missed)
    /\ last' = [op |-> "batchList", req |-> r.req,
                res |-> BatchListPages(r.req.requests, r.keys, r.items), read |-> r.pre]
    /\ UNCHANGED <<kv, indexes, steps, run, tasks, edges, blobs, now, images, purged, transport>>

(* ---- listQuery with pagination arguments or range predicates ---- *)

\* The order of the storage keys is the order of their bytes; a token stands
\* here for its place in that order ("$" < "-" < digits < letters).
Rank(token) ==
    CASE token = "$" -> 0 [] token = "--" -> 1 [] token = "-name" -> 2
      [] token = "a" -> 13 [] token = "b" -> 14 [] token = "child" -> 15
      [] token = "idx:" -> 16 [] token = "parent" -> 17
      [] token = "relationship" -> 18 [] token = "undefined" -> 19
      [] OTHER -> 3 + DigitVal(token)

RECURSIVE Less(_, _)
Less(s, t) ==
    IF t = <<>> THEN FALSE
    ELSE IF s = <<>> THEN TRUE
    ELSE IF s[1] = t[1] THEN Less(Tail(s), Tail(t))
    ELSE Rank(s[1]) < Rank(t[1])

\* storage.list({prefix, startAfter, end, limit, reverse}): the rows under
\* the prefix with startAfter < key < end, and of these the `limit` smallest
\* (the largest with reverse).  An absent bound is the empty string, an
\* absent limit 0.
StorageList(store, prefix, startAfter, end, limit, reverse) ==
    LET ahead(inRange, k) == {j \in inRange : IF reverse THEN Less(k, j) ELSE Less(j, k)}
        taken(inRange) == IF limit = 0 THEN inRange
                          ELSE {k \in inRange : Cardinality(ahead(inRange, k)) < limit}
    IN  [k \in UNION {taken(inRange) :
                         inRange \in {{k \in List(store, prefix) :
                                          /\ startAfter = <<>> \/ Less(startAfter, k)
                                          /\ end = <<>> \/ Less(k, end)}}} |-> store[k]]

\* `last ?? 100`, `first ?? 100`: the limit of a listing from a cursor.
DefaultLimit == 100

\* getPaginatedItems
GetPaginatedItems(store, first, before, lastN, after, prefix) ==
    IF (first # 0 /\ before # <<>>) \/ (lastN # 0 /\ after # <<>>) \/ (first # 0 /\ lastN # 0)
    THEN BadRequest
    ELSE IF before # <<>> /\ after # <<>>
    THEN Ok(StorageList(store, prefix, after, before, 0, FALSE))
    ELSE IF before # <<>>
    THEN Ok(StorageList(store, prefix, <<>>, before,
                        IF lastN # 0 THEN lastN ELSE DefaultLimit, TRUE))
    ELSE IF after # <<>>
    THEN Ok(StorageList(store, prefix, after, <<>>,
                        IF first # 0 THEN first ELSE DefaultLimit, FALSE))
    ELSE IF first # 0 THEN Ok(StorageList(store, prefix, <<>>, <<>>, first, FALSE))
    ELSE IF lastN # 0 THEN Ok(StorageList(store, prefix, <<>>, <<>>, lastN, TRUE))
    ELSE Ok(StorageList(store, prefix, <<>>, <<>>, 0, FALSE))

\* The response of listQuery: the items by their id.
Response(items) ==
    [i \in {items[k].id : k \in DOMAIN items} |->
        items[CHOOSE k \in DOMAIN items : items[k].id = i]]

\* query.every((q) => value[q.property] >= q.min && value[q.property] <= q.max)
Matches(value, query) ==
    \A i \in 1..Len(query) :
        /\ query[i].property \in DOMAIN value
        /\ value[query[i].property] >= query[i].min
        /\ value[query[i].property] <= query[i].max

\* The loop of getQueryItems over the entries of the items.
Filter(items, query) == [k \in {x \in DOMAIN items : Matches(items[x], query)} |-> items[k]]

\* What the runtime throws when `items.entries` is no function.
TypeError == [ok |-> FALSE, error |-> "TypeError"]

\* listQuery without range predicates and with a pagination argument:
\* getPaginatedItems; nothing is cached.
PagedListQuery(input) ==
    /\ Idle
    /\ input.query = <<>>
    /\ input.first # 0 \/ input.last # 0 \/ input.before # <<>> \/ input.after # <<>>
    /\ \E items \in {GetPaginatedItems(kv, input.first, input.before, input.last, input.after,
                                       KeyFromQuery(input.key, input.index))} :
        /\ ReturnRead("list", input,
                      IF items.ok THEN Ok(Response(items.value)) ELSE items, kv)
        /\ UNCHANGED <<kv, indexes, cache, run, tasks, edges, reads, blobs, now, images,
                       purged, transport>>

\* listQuery with range predicates, up to the await in getQueryItems: the
\* pagination arguments are not looked at.  What the cache holds under the
\* prefix is taken as the listing; without it storage.list is issued.
RangeQueryStart(input) ==
    LET prefix == KeyFromQuery(input.key, input.index)
    IN  /\ CanRead
        /\ input.query # <<>>
        /\ IF CacheHit(cache, prefix)
           THEN /\ ReturnRead("list", input,
                              IF "list" \in DOMAIN cache[prefix]
                              THEN Ok(Response(Filter(cache[prefix].list, input.query)))
                              ELSE TypeError,
                              kv)
                /\ UNCHANGED reads
           ELSE /\ reads' = reads \cup {Pending("rangeList", input, <<prefix>>,
                                                ListMap(kv, prefix), EmptyMap, {})}
                /\ steps' = steps + 1
                /\ UNCHANGED last
        /\ UNCHANGED <<kv, indexes, cache, run, tasks, edges, blobs, now, images, purged, transport>>

\* listQuery with range predicates after the await: the listing is cached
\* under the prefix and the matching items are returned.
RangeQueryFinish(r) ==
    /\ r \in reads /\ r.op = "rangeList"
    /\ reads' = reads \ {r}
    /\ cache' = Put(cache, r.keys[1], Listing(r.items))
    /\ last' = [op |-> "list", req |-> r.req,
                res |-> Ok(Response(Filter(r.items, r.req.query))), read |-> r.pre]
    /\ UNCHANGED <<kv, indexes, steps, run, tasks, edges, blobs, now, images, purged, transport>>

(* ---- mutating handlers across their awaits ---- *)

\* doBatchUpdate up to the await in doChunkedRead.  handle has cleared the
\* cache, so every key is asked of the storage, with allowConcurrency: other
\* requests are delivered until the values arrive.
BatchUpdateStart(op, input) ==
    LET fetched == [k \in DOMAIN input \cap DOMAIN kv |-> kv[k]]
    IN  /\ CanRead
        /\ cache' = EmptyMap
        /\ reads' = reads \cup {Pending(op, [entries |-> input], ObjectKeys(DOMAIN input),
                                        fetched, fetched, DOMAIN input \ DOMAIN kv)}
        /\ steps' = steps + 1
        /\ UNCHANGED <<kv, indexes, last, run, tasks, edges, blobs, now, images>>
        /\ purged' = FALSE /\ UNCHANGED transport

\* doBatchUpdate after the await: the patches are merged into the values
\* that were read, and the rows are written and the dangling rows deleted.
BatchUpdateFinish(r) ==
    /\ r \in reads /\ r.op \in {"batchUpdate", "batchUpsert"}
    /\ \E loop \in {BatchUpdateLoop(indexes, r.req.entries, r.items, r.keys,
                                   [entries |-> EmptyMap, dangling |-> {}])} :
           LET written == DoChunkedWrite(kv, Delete(PutAll(cache, r.fetched), r.missed),
                                         loop.entries)
               deleted == DoChunkedDelete(written.kv, written.cache, loop.dangling)
           IN  /\ kv' = deleted.kv
               /\ cache' = deleted.cache
               /\ last' = [op |-> r.op, req |-> r.req,
                           res |-> Ok([i \in 1..Len(r.keys) |-> loop.entries[r.keys[i]]]),
                           read |-> r.pre]
    /\ reads' = reads \ {r}
    /\ UNCHANGED <<indexes, steps, run, tasks, edges, blobs, now, images>>
    /\ purged' = FALSE /\ UNCHANGED transport

\* The values doChunkedRead has when it awaits the storage for the keys the
\* cache misses, and those keys.
ChunkedRead(store, c, keys) ==
    [items |-> DoChunkedRead(store, c, keys).items,
     missing |-> {k \in keys : ~CacheHit(c, k)}]

\* createRelationshipBatch up to the await of addRelationshipBatch(relationsRight).
CreateRelationshipBatchStart(input) ==
    LET read == ChunkedRead(kv, EmptyMap, Sources(RelationsRight(input)))
    IN  /\ CanRead
        /\ cache' = EmptyMap
        /\ reads' = reads \cup {Pending("relationsRight", [requests |-> input], SeqOf(read.missing),
                                        read.items, read.items, read.missing \ DOMAIN kv)}
        /\ steps' = steps + 1
        /\ UNCHANGED <<kv, indexes, last, run, tasks, edges, blobs, now, images>>
        /\ purged' = FALSE /\ UNCHANGED transport

\* addRelationshipBatch(relationsLeft) after its read: the sets are written
\* and the handler returns.
CreateRelationshipBatchReturn(r, store, items) ==
    LET update == BatchUpdate(RelationsLeft(r.req.requests), items, EmptyMap, TRUE)
        written == DoChunkedWrite(store, EmptyMap, update)
    IN  /\ kv' = written.kv
        /\ cache' = written.cache
        /\ edges' = edges \cup {r.req.requests[i] : i \in 1..Len(r.req.requests)}
        /\ last' = [op |-> "createRelationshipBatch", req |-> r.req.requests, res |-> Success,
                    read |-> r.pre]
        /\ reads' = reads \ {r}

\* After the first await: the sets of relationsRight are written and cached,
\* and addRelationshipBatch(relationsLeft) reads its sets.  It awaits the
\* storage only for the sets the cache misses.
CreateRelationshipBatchRight(r) ==
    /\ r \in reads /\ r.op = "relationsRight"
    /\ LET update == BatchUpdate(RelationsRight(r.req.requests), r.items, EmptyMap, TRUE)
           written == DoChunkedWrite(kv, EmptyMap, update)
           read == ChunkedRead(written.kv, written.cache, Sources(RelationsLeft(r.req.requests)))
       IN  IF read.missing = {}
           THEN CreateRelationshipBatchReturn(r, written.kv, read.items)
           ELSE /\ kv' = written.kv
                /\ cache' = written.cache
                /\ reads' = (reads \ {r}) \cup
                       {[op |-> "relationsLeft", req |-> r.req, keys |-> SeqOf(read.missing),
                         items |-> read.items, fetched |-> read.items,
                         missed |-> read.missing \ DOMAIN written.kv, pre |-> r.pre]}
                /\ UNCHANGED <<last, edges>>
    /\ UNCHANGED <<indexes, steps, run, tasks, blobs, now, images>>
    /\ purged' = FALSE /\ UNCHANGED transport

\* After the second await.
CreateRelationshipBatchLeft(r) ==
    /\ r \in reads /\ r.op = "relationsLeft"
    /\ CreateRelationshipBatchReturn(r, kv, r.items)
    /\ UNCHANGED <<indexes, steps, run, tasks, blobs, now, images>>
    /\ purged' = FALSE /\ UNCHANGED transport

(* ---- the calls of the chunked operations ---- *)

\* doChunkedRead: the storage.get calls.  Every chunk asks for its keys that
\* the cache misses, and issues no call when it misses none.  The calls of
\* all chunks are issued before any of them is answered.
ReadCalls(c, keys) ==
    LET chunks == Chunk(keys, ITEM_LIMIT)
    IN  SelectSeq([i \in 1..Len(chunks) |-> SelectSeq(chunks[i], LAMBDA k : ~CacheHit(c, k))],
                  LAMBDA missing : missing # <<>>)

\* The items doChunkedRead returns: the cached values and the answers of
\* the calls.
ReadItems(store, c, keys, calls) ==
    LET cached == {k \in Members(keys) : CacheHit(c, k)}
        answered == UNION {Members(calls[i]) \cap DOMAIN store : i \in 1..Len(calls)}
    IN  [k \in cached \cup answered |-> IF k \in cached THEN c[k] ELSE store[k]]

\* doChunkedWrite: the storage.put calls, one per chunk of Object.keys(entries).
WriteCalls(entries) ==
    IF entries = EmptyMap THEN <<>>
    ELSE LET chunks == Chunk(ObjectKeys(DOMAIN entries), ITEM_LIMIT)
         IN  [i \in 1..Len(chunks) |-> [k \in Members(chunks[i]) |-> entries[k]]]

\* doChunkedDelete: the storage.delete calls, one per chunk of the keys.
DeleteCalls(keys) == IF keys = <<>> THEN <<>> ELSE Chunk(keys, ITEM_LIMIT)

\* The storage after the put calls, in the order they were issued.
RECURSIVE AfterPuts(_, _)
AfterPuts(store, calls) ==
    IF calls = <<>> THEN store ELSE AfterPuts(PutAll(store, Head(calls)), Tail(calls))

\* The storage after the delete calls.
RECURSIVE AfterDeletes(_, _)
AfterDeletes(store, calls) ==
    IF calls = <<>> THEN store
    ELSE AfterDeletes(Delete(store, Members(Head(calls))), Tail(calls))

\* doChunkedRead(keys): the items are returned, what was fetched is cached.
ChunkedGet(keys) ==
    /\ Idle
    /\ \E calls \in {ReadCalls(cache, keys)} :
       \E items \in {ReadItems(kv, cache, keys, calls)} :
           /\ cache' = PutAll(cache, items)
           /\ ReturnRead("doChunkedRead", [keys |-> keys],
                         [ok |-> TRUE, calls |-> calls, value |-> items], kv)
    /\ UNCHANGED <<kv, indexes, run, tasks, edges, reads, blobs, now, images, purged, transport>>

\* doChunkedWrite(entries): the cache is cleared, the entries are put chunk
\* by chunk and cached.
ChunkedPut(entries) ==
    /\ Idle
    /\ \E calls \in {WriteCalls(entries)} :
           /\ kv' = AfterPuts(kv, calls)
           /\ cache' = AfterPuts(EmptyMap, calls)
           /\ ReturnRead("doChunkedWrite", [entries |-> entries],
                         [ok |-> TRUE, calls |-> [i \in 1..Len(calls) |-> ObjectKeys(DOMAIN calls[i])]],
                         kv)
    /\ UNCHANGED <<indexes, run, tasks, edges, reads, blobs, now, images>>
    /\ purged' = FALSE /\ UNCHANGED transport

\* doChunkedDelete(keys): the cache is cleared, the keys are deleted chunk
\* by chunk.
ChunkedRemove(keys) ==
    /\ Idle
    /\ \E calls \in {DeleteCalls(keys)} :
           /\ kv' = AfterDeletes(kv, calls)
           /\ cache' = EmptyMap
           /\ ReturnRead("doChunkedDelete", [keys |-> keys], [ok |-> TRUE, calls |-> calls], kv)
    /\ UNCHANGED <<indexes, run, tasks, edges, reads, blobs, now, images>>
    /\ purged' = FALSE /\ UNCHANGED transport

(* ---- store handler ---- *)

\* JSON.parse(JSON.stringify(value)) of a stored value.  Entities, index
\* declarations (plain objects) and name mappings (strings) come back as
\* they were; a neighbour set is a Set, which JSON.stringify writes as "{}":
\* it comes back as the object without properties (the value <<>> here, the
\* same value as the set without members).
ThroughJSON(key, value) ==
    IF IsPrefix(<<"relationship", "$">>, key) THEN EmptyMap ELSE value

\* JSON.stringify(Object.fromEntries(data.entries())), as the mapping that
\* JSON.parse gives back.
Stringify(store) == [key \in DOMAIN store |-> ThroughJSON(key, store[key])]

\* `${id}/graph-store-${time}${suffix}.json`
BlobName(time, reason) == <<time, reason>>

\* A backup that lists the storage only after it has been purged.
BackupBlobPurged(store, time, reason) ==
    Put(blobs, BlobName(time, reason), Stringify(EmptyMap))

\* backup(reason): list the whole storage, put its JSON under a new name.
\* Every call reads a later time from the clock.
BackupBlob(store, time, reason) == Put(blobs, BlobName(time, reason), Stringify(store))

\* backup
Backup ==
    /\ ~run.active
    /\ now < MaxTime
    /\ now' = now + 1
    /\ blobs' = BackupBlob(kv, now', "")
    /\ images' = Put(images, BlobName(now', ""), kv)
    /\ last' = [op |-> "backup", req |-> <<>>, res |-> Ok(BlobName(now', "")),
                read |-> EmptyMap]
    /\ UNCHANGED <<kv, indexes, cache, steps, run, tasks, edges, reads, purged, transport>>

\* restore: NotFound without the blob; else a backup tagged before-restore,
\* storage.deleteAll(), and doChunkedWrite of the parsed mapping (not
\* awaited: its puts are issued before restore returns).
Restore(backupId) ==
    /\ ~run.active
    /\ IF ~Has(blobs, backupId)
       THEN /\ last' = [op |-> "restore", req |-> [backupId |-> backupId],
                        res |-> NotFound, read |-> EmptyMap]
            /\ UNCHANGED <<kv, cache, blobs, now, images, purged, transport>>
       ELSE LET body == blobs[backupId]
                written == DoChunkedWrite(EmptyMap, cache, body)
            IN  /\ now < MaxTime
                /\ now' = now + 1
                /\ blobs' = BackupBlob(kv, now', "before-restore")
                /\ images' = Put(images, BlobName(now', "before-restore"), kv)
                /\ kv' = written.kv
                /\ cache' = written.cache
                /\ last' = [op |-> "restore", req |-> [backupId |-> backupId],
                            res |-> Ok([count |-> Cardinality(DOMAIN body)]),
                            read |-> kv]
                /\ purged' = FALSE /\ UNCHANGED transport
    /\ UNCHANGED <<indexes, steps, run, tasks, edges, reads>>

---------------------------------------------------------------------------
(* Batch removal.  removeRelationshipNodeBatch starts one                  *)
(* clearAllRelationshipsForNode per node and awaits them together          *)
(* (Promise.all), so the calls interleave at their storage operations:     *)
(*   list   - transaction.list(prefix) and transaction.get(name mappings)  *)
(*   read   - doChunkedRead: the cache is consulted, storage.get is issued *)
(*   write  - the get has resolved: update computed, cache cleared,        *)
(*            storage.put issued                                           *)
(*   commit - the put has resolved: the written sets are cached; the       *)
(*            transaction commits its delete of the listed keys            *)
(* A storage operation takes effect when it is issued.                     *)

NotRunning == [active |-> FALSE]

NewTask(node) ==
    [node |-> node, pc |-> "list", rightIds |-> {}, left |-> <<>>,
     items |-> EmptyMap, update |-> EmptyMap]

\* batchRemoveNode of the relationship handler.
BatchRemoveNodeStart(nodes) ==
    /\ Idle
    /\ cache' = EmptyMap
    /\ run' = [active |-> TRUE, op |-> "batchRemoveNode", nodes |-> nodes, pre |-> kv]
    /\ tasks' = [i \in 1..Len(nodes) |-> NewTask(nodes[i])]
    /\ steps' = steps + 1
    /\ UNCHANGED <<kv, indexes, last, edges, reads, blobs, now, images, purged, transport>>

\* batchRemoveQuery: chunked delete of the keys and of `${property}--${key}`
\* for every key and index, then batchRemoveNode for the keys.
BatchRemoveQueryStart(keys) ==
    LET toDelete == {keys[i] : i \in 1..Len(keys)}
                    \cup UNION {EnhanceDeletePayload(indexes, keys[i]) : i \in 1..Len(keys)}
        deleted == DoChunkedDelete(kv, EmptyMap, toDelete)
    IN  /\ Idle
        /\ kv' = deleted.kv
        /\ cache' = deleted.cache
        /\ run' = [active |-> TRUE, op |-> "batchRemove", nodes |-> keys, pre |-> deleted.kv]
        /\ tasks' = [i \in 1..Len(keys) |-> NewTask(keys[i])]
        /\ steps' = steps + 1
        /\ UNCHANGED <<indexes, last, edges, reads, blobs, now, images>>
        /\ purged' = FALSE /\ UNCHANGED transport

TaskList(i) ==
    /\ run.active /\ tasks[i].pc = "list"
    /\ tasks' = [tasks EXCEPT ![i] =
                    [@ EXCEPT !.pc = "read",
                              !.rightIds = RelationsRightIds(kv, tasks[i].node),
                              !.left = RelationsLeftIds(kv, tasks[i].node)]]
    /\ UNCHANGED <<kv, indexes, cache, last, steps, run, edges, reads, blobs, now, images, purged, transport>>

TaskRead(i) ==
    /\ run.active /\ tasks[i].pc = "read"
    /\ tasks' = [tasks EXCEPT ![i] =
                    [@ EXCEPT !.pc = "write",
                              !.items = DoChunkedRead(kv, cache, Sources(tasks[i].left)).items]]
    /\ UNCHANGED <<kv, indexes, cache, last, steps, run, edges, reads, blobs, now, images, purged, transport>>

TaskWrite(i) ==
    LET update == BatchUpdate(tasks[i].left, tasks[i].items, EmptyMap, FALSE)
    IN  /\ run.active /\ tasks[i].pc = "write"
        /\ kv' = PutAll(kv, update)
        /\ cache' = EmptyMap
        /\ tasks' = [tasks EXCEPT ![i] = [@ EXCEPT !.pc = "commit", !.update = update]]
        /\ UNCHANGED <<indexes, last, steps, run, edges, reads, blobs, now, images>>
        /\ purged' = FALSE /\ UNCHANGED transport

TaskCommit(i) ==
    /\ run.active /\ tasks[i].pc = "commit"
    /\ cache' = PutAll(cache, tasks[i].update)
    /\ kv' = Delete(kv, tasks[i].rightIds)
    /\ tasks' = [tasks EXCEPT ![i] = [@ EXCEPT !.pc = "done"]]
    /\ UNCHANGED <<indexes, last, steps, run, edges, reads, blobs, now, images>>
    /\ purged' = FALSE /\ UNCHANGED transport

AllDone == run.active /\ \A i \in 1..Len(tasks) : tasks[i].pc = "done"

BatchRemoveReturn ==
    /\ AllDone
    /\ last' = [op |-> run.op, req |-> run.nodes, res |-> Success, read |-> EmptyMap]
    /\ edges' = EdgesAfterRemoveNodes(edges, run.nodes)
    /\ run' = NotRunning
    /\ tasks' = <<>>
    /\ UNCHANGED <<kv, indexes, cache, steps, reads, blobs, now, images, purged, transport>>

(* ---- client transport ---- *)

\* The options doOperation gives to retry.
maxRetries == 3
delay == 100
factor == 2

\* What one call of doNetworkOperation gives: a response with its status, or
\* an exception of fetch.
Statuses == {200, 400, 404, 500, 503}

Outcomes ==
    {[thrown |-> FALSE, status |-> s] : s \in Statuses} \cup {[thrown |-> TRUE, status |-> 0]}

\* response.status ? response.status >= 500 : false
ShouldRetryOnSuccess(response) == response.status # 0 /\ response.status >= 500

\* The options doOperation gives to retry: shouldRetryOnSuccess is the test
\* of the status above ("5xx"), shoudlRetryOnFailure is retry's default
\* retryOnFailure ("always").
TransportOpts ==
    [maxRetries |-> maxRetries, shouldRetryOnSuccess |-> "5xx",
     shoudlRetryOnFailure |-> "always"]

\* shoudlRetryOnFailure(err): the default retryOnFailure ("always"), a
\* predicate that is false of every error ("never"), and one that is true
\* of the exceptions of the callback and false of retry's own RetryError
\* ("thrown").
ShoudlRetryOnFailure(opts, outcome) ==
    \/ opts.shoudlRetryOnFailure = "always"
    \/ opts.shoudlRetryOnFailure = "thrown" /\ outcome.thrown

\* No request in flight.  retryCount is retry's counter; outcomes and waits
\* are the calls of the callback and the timers set so far.
NoCall ==
    [pc |-> "idle", retryCount |-> 0, outcomes |-> <<>>, waits |-> <<>>,
     opts |-> TransportOpts]

\* doOperation calls retry, which sets retryCount to 0 and calls callback.
DoOperation ==
    /\ transport.pc \in {"idle", "returned", "thrown"}
    /\ transport' = [NoCall EXCEPT !.pc = "calling"]
    /\ UNCHANGED <<kv, indexes, cache, last, steps, run, tasks, edges, reads, blobs, now,
                   images, purged>>

\* retry(tag, cb, opts): retryCount is 0, callback is called.
Retry(opts) ==
    /\ transport.pc \in {"idle", "returned", "thrown"}
    /\ transport' = [NoCall EXCEPT !.pc = "calling", !.opts = opts]
    /\ UNCHANGED <<kv, indexes, cache, last, steps, run, tasks, edges, reads, blobs, now,
                   images, purged>>

\* One run of callback, up to its return, its throw or its setTimeout.  A
\* response that shouldRetryOnSuccess accepts is thrown as a RetryError; the
\* catch throws RetryExhaustedError when retryCount >= maxRetries and
\* shoudlRetryOnFailure(err), and otherwise increments retryCount and waits
\* delay * factor ** retryCount.
Callback(outcome) ==
    /\ transport.pc = "calling"
    /\ Len(transport.outcomes) < MaxCalls
    /\ LET caught == \/ outcome.thrown
                     \/ /\ transport.opts.shouldRetryOnSuccess = "5xx"
                        /\ ShouldRetryOnSuccess(outcome)
           retryCount == transport.retryCount + 1
       IN  transport' =
               IF ~caught
               THEN [transport EXCEPT !.pc = "returned", !.outcomes = Append(@, outcome)]
               ELSE IF /\ transport.retryCount >= transport.opts.maxRetries
                       /\ ShoudlRetryOnFailure(transport.opts, outcome)
               THEN [transport EXCEPT !.pc = "thrown", !.outcomes = Append(@, outcome)]
               ELSE [transport EXCEPT !.pc = "waiting", !.outcomes = Append(@, outcome),
                                      !.retryCount = retryCount,
                                      !.waits = Append(@, delay * factor ^ retryCount)]
    /\ UNCHANGED <<kv, indexes, cache, last, steps, run, tasks, edges, reads, blobs, now,
                   images, purged>>

\* The timer fires: return callback().
Timeout ==
    /\ transport.pc = "waiting"
    /\ transport' = [transport EXCEPT !.pc = "calling"]
    /\ UNCHANGED <<kv, indexes, cache, last, steps, run, tasks, edges, reads, blobs, now,
                   images, purged>>

---------------------------------------------------------------------------
(* Specifications *)

\* After construction: empty storage, snapshot synced, empty cache.
Init ==
    /\ kv = EmptyMap
    /\ indexes = SyncIndexes(EmptyMap)
    /\ cache = EmptyMap
    /\ last = [op |-> "none", req |-> <<>>, res |-> Success, read |-> EmptyMap]
    /\ steps = 0
    /\ run = NotRunning
    /\ tasks = <<>>
    /\ edges = {}
    /\ reads = {}
    /\ blobs = EmptyMap
    /\ now = 0
    /\ images = EmptyMap
    /\ purged = FALSE
    /\ transport = NoCall

\* Non-empty lists without repetition of at most MaxBatch elements of S.
RECURSIVE ListsOf(_, _)
ListsOf(S, n) ==
    IF n = 0 THEN {<<>>}
    ELSE LET shorter == ListsOf(S, n - 1)
         IN  shorter \cup {Append(l, x) : l \in shorter, x \in S}

Lists(S) ==
    {l \in ListsOf(S, MaxBatch) :
        l # <<>> /\ \A i, j \in 1..Len(l) : i # j => l[i] # l[j]}

BatchRemoveSteps ==
    \/ \E i \in DOMAIN tasks : TaskList(i)
    \/ \E i \in DOMAIN tasks : TaskRead(i)
    \/ \E i \in DOMAIN tasks : TaskWrite(i)
    \/ \E i \in DOMAIN tasks : TaskCommit(i)
    \/ BatchRemoveReturn

\* Payloads of at most one property, for the entries of batch requests.
SmallPayloads == {v \in Payloads : Cardinality(DOMAIN v) <= 1 /\ v # EmptyMap}

SmallBatchEntries ==
    UNION {[S -> SmallPayloads] :
              S \in {T \in SUBSET Keys : T # {} /\ Cardinality(T) <= MaxBatch}}

\* Relationship requests: node a is related to node b as `aToB`, b to a as
\* `bToA`.
Request(a, b, aToB, bToA) ==
    [nodeA |-> a, nodeB |-> b,
     nodeAToBRelationshipName |-> aToB, nodeBToARelationshipName |-> bToA]

Pairs == {<<Str(1), Str(2)>>, <<Str(12), Str(2)>>, <<Str(1), Str(12)>>}

\* The first node of a pair is the parent of the second ...
ParentRequests ==
    {Request(p[1], p[2], <<"parent">>, <<"child">>) : p \in Pairs}

\* ... or its child.
RelRequests ==
    ParentRequests \cup {Request(p[1], p[2], <<"child">>, <<"parent">>) : p \in Pairs}

NextIndex ==
    \/ \E p \in Props : CreateIndex(p)
    \/ \E id \in IndexIds, p \in Props : UpdateIndex(id, p)
    \/ \E id \in IndexIds : RemoveIndex(id)

NextQuery ==
    \/ \E key \in Keys, payload \in Payloads : CreateQuery(key, payload)
    \/ \E key \in Keys, patch \in Payloads : UpdateQuery(key, patch)
    \/ \E key \in Keys : RemoveQuery(key)
    \/ \E input \in BatchEntries : BatchCreateQuery(input)
    \/ \E input \in BatchEntries : BatchUpdateQuery(input)
    \/ \E input \in BatchEntries : BatchUpsertQuery(input)
    \/ \E keys \in Lists(Keys) : BatchRemoveQueryStart(keys)

NextRelationship ==
    \/ \E input \in RelRequests : CreateRelationship(input)
    \/ \E input \in Lists(RelRequests) : CreateRelationshipBatch(input)
    \/ \E input \in RelRequests : RemoveRelationship(input)
    \/ \E input \in Lists(RelRequests) : RemoveRelationshipBatch(input)
    \/ \E node \in Nodes : RemoveRelationshipNode(node)
    \/ \E nodes \in Lists(Nodes) : BatchRemoveNodeStart(nodes)

\* Every handler, on every input of the model.
Next == NextIndex \/ NextQuery \/ NextRelationship \/ BatchRemoveSteps

Spec == Init /\ [][Next]_vars

\* The entity and index handlers; batch requests carry small payloads.
NextEntity ==
    \/ \E p \in Props : CreateIndex(p)
    \/ \E id \in IndexIds : RemoveIndex(id)
    \/ \E key \in Keys, payload \in Payloads : CreateQuery(key, payload)
    \/ \E key \in Keys, patch \in Payloads : UpdateQuery(key, patch)
    \/ \E key \in Keys : RemoveQuery(key)
    \/ \E input \in SmallBatchEntries : BatchCreateQuery(input)
    \/ \E input \in SmallBatchEntries : BatchUpdateQuery(input)
    \/ \E input \in SmallBatchEntries : BatchUpsertQuery(input)
    \/ \E keys \in Lists(Keys) : BatchRemoveQueryStart(keys)
    \/ BatchRemoveSteps

SpecEntity == Init /\ [][NextEntity]_vars

\* The handlers that write one entity at a time, and the index handlers.
NextUpdate ==
    \/ \E p \in Props : CreateIndex(p)
    \/ \E id \in IndexIds : RemoveIndex(id)
    \/ \E key \in Keys, payload \in Payloads : CreateQuery(key, payload)
    \/ \E key \in Keys, patch \in Payloads : UpdateQuery(key, patch)
    \/ \E key \in Keys : RemoveQuery(key)

SpecUpdate == Init /\ [][NextUpdate]_vars

\* The relationship handlers, and the entity handlers that create and remove
\* a node's entity (removeQuery cascades into the relationship handler).
NextRel ==
    \/ \E input \in RelRequests : CreateRelationship(input)
    \/ \E input \in Lists(ParentRequests) : CreateRelationshipBatch(input)
    \/ \E input \in RelRequests : RemoveRelationship(input)
    \/ \E input \in Lists(ParentRequests) : RemoveRelationshipBatch(input)
    \/ \E node \in Nodes : RemoveRelationshipNode(node)
    \/ \E key \in Keys : CreateQuery(key, EmptyMap)
    \/ \E key \in Keys : RemoveQuery(key)

SpecRel == Init /\ [][NextRel]_vars

\* Batch removal of nodes whose edges were created one at a time: nodes "1"
\* and "2" are parents of node "3".
RaceRequests ==
    {Request(Str(1), Str(3), <<"parent">>, <<"child">>),
     Request(Str(2), Str(3), <<"parent">>, <<"child">>)}

RaceNodes == {Str(1), Str(2), Str(3)}

NextRace ==
    \/ \E input \in RaceRequests : CreateRelationship(input)
    \/ \E nodes \in Lists(RaceNodes) : BatchRemoveNodeStart(nodes)
    \/ \E keys \in Lists(Keys) : BatchRemoveQueryStart(keys)
    \/ BatchRemoveSteps

SpecRace == Init /\ [][NextRace]_vars

\* Listing the children of node "3", which edges created one or two at a
\* time have given up to four members.
ListEdges ==
    {Request(n, Str(3), <<"parent">>, <<"child">>) : n \in {Str(1), Str(2), Str(12)}}

PageSizes == 0..MaxBatch

Cursors == {<<>>, Str(1), Str(2), Str(12)}

ListRequests ==
    [name : {<<"child">>}, node : {Str(3)},
     first : PageSizes, last : PageSizes, before : Cursors, after : Cursors]

NextList ==
    \/ \E input \in ListEdges : CreateRelationship(input)
    \/ \E input \in Lists(ListEdges) : CreateRelationshipBatch(input)
    \/ \E input \in ListEdges : RemoveRelationship(input)
    \/ \E input \in ListRequests : ListRelationshipQuery(input)

SpecList == Init /\ [][NextList]_vars

\* Backup and restore of a store of entities, an index and edges.
StoreEdges == {Request(Str(1), Str(2), <<"parent">>, <<"child">>)}

\* The names restore is asked for: the blobs written, and one never written.
BackupIds == DOMAIN blobs \cup {BlobName(0, "")}

NextStore ==
    \/ CreateIndex("a")
    \/ \E key \in Keys : CreateQuery(key, [a |-> 1])
    \/ \E input \in StoreEdges : CreateRelationship(input)
    \/ PurgeAllQuery
    \/ Backup
    \/ \E backupId \in BackupIds : Restore(backupId)

SpecStore == Init /\ [][NextStore]_vars

\* Reads of the entity store while entities are written and purged.
\* A request of more keys than one call of the storage takes.
LongKeys == [i \in 1..(ITEM_LIMIT + 1) |-> IF i % 2 = 1 THEN Str(1) ELSE Str(12)]

ReadLists == Lists(Keys) \cup {<<Str(1), Str(1)>>, LongKeys}

CachePayloads == {[a |-> v] : v \in Vals}

NextCache ==
    \/ \E key \in Keys, payload \in CachePayloads : CreateQuery(key, payload)
    \/ PurgeAllQuery
    \/ Backup
    \/ \E key \in Keys : ReadQueryStart(key, <<>>)
    \/ \E r \in reads : ReadQueryFinish(r)
    \/ \E keys \in ReadLists : BatchReadStart(keys, <<>>)
    \/ \E r \in reads : BatchReadFinish(r)
    \/ \E key \in Keys \cup {<<>>} : ListQueryStart(key, <<>>)
    \/ \E r \in reads : ListQueryFinish(r)

SpecCache == Init /\ [][NextCache]_vars

\* Listings of entities and of neighbours, with pagination arguments and
\* range predicates, between writes and reads.
PageKeys == {Str(1), Str(12), Str(13)}

\* batchCreate requests: the keys "12" and "13", and the keys "1", "12" and
\* "13".
PageEntries == UNION {[S -> CachePayloads] : S \in {{Str(12), Str(13)}, PageKeys}}

\* A batchCreate request of more keys under the prefix "1" than a listing
\* from a cursor takes.
ManyEntries == [k \in {Str(n) : n \in 1000..(1000 + DefaultLimit)} |-> [a |-> 1]]

Queries ==
    {<<>>, <<[property |-> "a", min |-> 1, max |-> 1]>>,
     <<[property |-> "a", min |-> 1, max |-> 12], [property |-> "b", min |-> 1, max |-> 12]>>}

\* listQuery requests under the prefix "1": with and without a page size,
\* cursors and range predicates.
ListQueryRequests ==
    [key : {Str(1)}, index : {<<>>}, first : {0, 1}, last : {0, 1},
     before : {<<>>, Str(13)}, after : {<<>>, Str(1)}, query : Queries]

\* listRelationship requests of the "child" neighbours of node "3".
NeighbourRequests ==
    [name : {<<"child">>}, node : {Str(3)}, first : {0, 1}, last : {0, 1},
     before : {<<>>, Str(1)}, after : {<<>>, Str(1)}]

NextPages ==
    \/ \E key \in PageKeys, payload \in CachePayloads : CreateQuery(key, payload)
    \/ \E input \in PageEntries : BatchCreateQuery(input)
    \/ \E key \in {Str(1)} : ReadQueryStart(key, <<>>)
    \/ \E r \in reads : ReadQueryFinish(r)
    \/ \E keys \in {<<Str(1)>>, <<Str(1), Str(12)>>} : BatchReadStart(keys, <<>>)
    \/ \E r \in reads : BatchReadFinish(r)
    \/ \E key \in {Str(1)} : ListQueryStart(key, <<>>)
    \/ \E r \in reads : ListQueryFinish(r)
    \/ \E input \in ListQueryRequests : PagedListQuery(input)
    \/ \E input \in ListQueryRequests : RangeQueryStart(input)
    \/ \E r \in reads : RangeQueryFinish(r)
    \/ \E input \in {e \in ListEdges : e.nodeA = Str(1)} : CreateRelationship(input)
    \/ \E input \in NeighbourRequests : ListRelationshipQuery(input)

SpecPages == Init /\ [][NextPages]_vars

\* Listings of few and of many entities: page sizes up to MaxBatch, a cursor
\* among the keys.
PageRequests ==
    [key : {Str(1)}, index : {<<>>}, first : PageSizes, last : PageSizes,
     before : {<<>>, Str(12)}, after : {<<>>, Str(12)}, query : {<<>>}]

NextLimit ==
    \/ \E input \in {e \in PageEntries : DOMAIN e = PageKeys} \cup {ManyEntries} :
           BatchCreateQuery(input)
    \/ \E input \in PageRequests : PagedListQuery(input)
    \/ \E key \in {Str(1)} : ListQueryStart(key, <<>>)
    \/ \E r \in reads : ListQueryFinish(r)

SpecLimit == Init /\ [][NextLimit]_vars

\* Batch listings of neighbours: the children of node "3", the parents of
\* node "1", and the children of node "1", which has none.
BatchEdges == {Request(n, Str(3), <<"parent">>, <<"child">>) : n \in {Str(1), Str(2)}}

\* No argument, a page size, a cursor, and a forbidden combination.
PageArguments ==
    {[first |-> 0, last |-> 0, before |-> <<>>, after |-> <<>>],
     [first |-> 1, last |-> 0, before |-> <<>>, after |-> <<>>],
     [first |-> 0, last |-> 0, before |-> <<>>, after |-> Str(2)],
     [first |-> 1, last |-> 0, before |-> Str(2), after |-> <<>>]}

BatchListRequests ==
    {[name |-> target[1], node |-> target[2], first |-> a.first, last |-> a.last,
      before |-> a.before, after |-> a.after] :
        target \in {<<<<"child">>, Str(3)>>, <<<<"parent">>, Str(1)>>, <<<<"child">>, Str(1)>>},
        a \in PageArguments}

\* Batches of one request, and of two requests without a page size over the
\* children of the nodes "3" and "1", the same request twice among them.
Batches ==
    {<<request>> : request \in BatchListRequests}
    \cup {<<a, b>> : a, b \in {request \in BatchListRequests :
                                  request.first = 0 /\ request.name = <<"child">>}}

NextBatchList ==
    \/ \E input \in BatchEdges : CreateRelationship(input)
    \/ \E input \in Lists(BatchEdges) : CreateRelationshipBatch(input)
    \/ \E input \in Batches : BatchListStart(input)
    \/ \E r \in reads : BatchListFinish(r)

SpecBatchList == Init /\ [][NextBatchList]_vars

\* One request of the client at a time through the transport.
NextTransport ==
    \/ DoOperation
    \/ \E outcome \in Outcomes : Callback(outcome)
    \/ Timeout

SpecTransport == Init /\ [][NextTransport]_vars

\* retry with every options value: no retry, one retry and the retries of
\* the transport; responses returned as they are or retried when 5xx; every
\* failure retried, none, or the exceptions of the callback only.
RetryOpts ==
    [maxRetries : {0, 1, maxRetries}, shouldRetryOnSuccess : {"never", "5xx"},
     shoudlRetryOnFailure : {"always", "never", "thrown"}]

NextRetry ==
    \/ \E opts \in RetryOpts : Retry(opts)
    \/ \E outcome \in Outcomes : Callback(outcome)
    \/ Timeout

SpecRetry == Init /\ [][NextRetry]_vars

\* Every mutating handler of the entity, index, relationship and store
\* handlers, after reads and listings that have filled the read cache: one
\* entity "1", one index, one edge.
OneEntry == [key \in {Str(1)} |-> [a |-> 1]]

NextMutations ==
    \/ CreateIndex("a")
    \/ UpdateIndex(IdxKey("a"), "b")
    \/ RemoveIndex(IdxKey("a"))
    \/ CreateQuery(Str(1), [a |-> 1])
    \/ UpdateQuery(Str(1), [a |-> 12])
    \/ RemoveQuery(Str(1))
    \/ BatchCreateQuery(OneEntry)
    \/ BatchUpdateQuery(OneEntry)
    \/ BatchUpsertQuery(OneEntry)
    \/ BatchRemoveQueryStart(<<Str(1)>>)
    \/ PurgeAllQuery
    \/ \E input \in StoreEdges : CreateRelationship(input)
    \/ \E input \in Lists(StoreEdges) : CreateRelationshipBatch(input)
    \/ \E input \in StoreEdges : RemoveRelationship(input)
    \/ \E input \in Lists(StoreEdges) : RemoveRelationshipBatch(input)
    \/ RemoveRelationshipNode(Str(1))
    \/ BatchRemoveNodeStart(<<Str(1)>>)
    \/ BatchRemoveSteps
    \/ Backup
    \/ \E backupId \in DOMAIN blobs : Restore(backupId)
    \/ ReadQueryStart(Str(1), <<>>)
    \/ \E r \in reads : ReadQueryFinish(r)
    \/ ListQueryStart(Str(1), <<>>)
    \/ \E r \in reads : ListQueryFinish(r)

SpecMutations == Init /\ [][NextMutations]_vars

\* Batch updates of the entity "1" and batch creations of the edges of node
\* "3", each delivered while another awaits the storage.
Patches == {[key \in {Str(1)} |-> patch] : patch \in SmallPayloads}

NextConcurrent ==
    \/ CreateQuery(Str(1), [a |-> 1])
    \/ \E input \in Patches : BatchUpdateStart("batchUpdate", input)
    \/ \E input \in Patches : BatchUpdateStart("batchUpsert", input)
    \/ \E r \in reads : BatchUpdateFinish(r)
    \/ \E input \in Lists(BatchEdges) : CreateRelationshipBatchStart(input)
    \/ \E r \in reads : CreateRelationshipBatchRight(r)
    \/ \E r \in reads : CreateRelationshipBatchLeft(r)

SpecConcurrent == Init /\ [][NextConcurrent]_vars

\* The chunked operations on one key, on as many keys as one call of the
\* storage takes, and on one more.
ChunkSizes == {1, ITEM_LIMIT, ITEM_LIMIT + 1}

KeysOfSize(n) == [i \in 1..n |-> Str(999 + i)]

NextChunks ==
    \/ \E n \in ChunkSizes, v \in Vals :
           ChunkedPut([k \in Members(KeysOfSize(n)) |-> [a |-> v]])
    \/ \E n \in ChunkSizes : ChunkedRemove(KeysOfSize(n))
    \/ \E keys \in {KeysOfSize(n) : n \in ChunkSizes} \cup {LongKeys} : ChunkedGet(keys)

SpecChunks == Init /\ [][NextChunks]_vars

\* The relationship handlers with every pairing of the directional names:
\* a name is its own inverse, or the inverse of the other.
NamedRequests ==
    {Request(p[1], p[2], aToB, bToA) : p \in Pairs, aToB \in Names, bToA \in Names}

NextNames ==
    \/ \E input \in NamedRequests : CreateRelationship(input)
    \/ \E input \in NamedRequests : RemoveRelationship(input)
    \/ \E node \in Nodes : RemoveRelationshipNode(node)

SpecNames == Init /\ [][NextNames]_vars

\* The index handlers, and the entity handlers that write one entity.
NextDeclare ==
    \/ NextIndex
    \/ \E key \in Keys, payload \in Payloads : CreateQuery(key, payload)
    \/ \E key \in Keys, patch \in Payloads : UpdateQuery(key, patch)

SpecDeclare == Init /\ [][NextDeclare]_vars

\* Batches of edges that touch one neighbour set more than once: node "1" is
\* the parent of nodes "2" and "12", nodes "1" and "12" are parents of node
\* "2", node "1" is its own parent, and node "2" is a child of node "1".
LoopRequests ==
    ParentRequests \cup {Request(Str(1), Str(1), <<"parent">>, <<"parent">>),
                         Request(Str(2), Str(1), <<"child">>, <<"parent">>)}

NextBatchCreate ==
    \/ \E input \in LoopRequests : CreateRelationship(input)
    \/ \E input \in Lists(LoopRequests) : CreateRelationshipBatch(input)
    \/ \E input \in LoopRequests : RemoveRelationship(input)

SpecBatchCreate == Init /\ [][NextBatchCreate]_vars

---------------------------------------------------------------------------
(* Properties of the index engine and the entity store *)

\* An index is declared on property p: its declaration is stored at idx:p.
Declared(p) == Has(indexes, IdxKey(p)) /\ indexes[IdxKey(p)].property = p

\* The handler `op` has just returned: nothing has run since.
Returned(op) == ~run.active /\ last.op = op

\* The step in which the handler `op` runs and returns.
Returns(op) == last'.op = op /\ steps' = steps + 1 /\ ~run'.active

\* readQuery({key}) and readQuery({key: v, index: p}) in the current state.
ReadByKey(key) == ReadQuery(kv, cache, key, <<>>)

ReadByIndex(p, v) == ReadQuery(kv, cache, Str(v), <<p>>)

\* The row `p--v`.
Row(p, v) == KeyForIndex(p, Str(v))

\* The entity keys written by the handler that has just returned.
Written ==
    IF last.op \in {"batchCreate", "batchUpdate", "batchUpsert"}
    THEN DOMAIN last.req.entries
    ELSE {last.req.key}

\* No other entity written by the same request has the value that the
\* entity stored at `key` has for p (two entities cannot both be `p--v`).
SoleHolder(key, p) ==
    \A other \in Written \ {key} :
        ~(Has(kv, other) /\ p \in DOMAIN kv[other] /\ kv[other][p] = kv[key][p])

\* C1: with an index declared on p, after createQuery, updateQuery or
\* batchUpsert has written an entity E whose merged value has p = v,
\* readQuery({key: v, index: p}) returns E, the record that readQuery by E's
\* primary key returns.  (Stated for the entities whose value of p no other
\* entry of the same request has.)
C1_IndexReadReturnsEntity ==
    ((Returned("create") \/ Returned("update") \/ Returned("batchUpsert")) /\ last.res.ok)
    => \A key \in Written, p \in Props :
          (/\ Declared(p)
           /\ ReadByKey(key).ok
           /\ p \in DOMAIN ReadByKey(key).value
           /\ SoleHolder(key, p))
          => ReadByIndex(p, ReadByKey(key).value[p]) = ReadByKey(key)

\* C2: in every state, for every declared index on p and every stored entity
\* E that has p = v, the row `p--v` exists and its value is E.
C2_IndexRowForEveryEntity ==
    \A p \in Props, key \in Keys :
        (Declared(p) /\ Has(kv, key) /\ p \in DOMAIN kv[key])
        => (Has(kv, Row(p, kv[key][p])) /\ kv[Row(p, kv[key][p])] = kv[key])

\* updateQuery has just changed the value of the indexed property p of the
\* entity it read (last.read) into that of the merged entity (last.res.value).
UpdateChanged(p) ==
    /\ Returned("update")
    /\ last.res.ok
    /\ Declared(p)
    /\ p \in DOMAIN last.read
    /\ last.read[p] # last.res.value[p]

\* C3: after updateQuery(key, patch) changes the value of an
\* indexed property p of E from old to new, the row `p--old` no longer
\* exists, listing index p at old does not contain E, and the row `p--new`
\* holds the merged entity.
C3_OldRowGoneFromListing ==
    \A p \in Props :
        UpdateChanged(p)
        => (/\ ~Has(kv, Row(p, last.read[p]))
            /\ last.res.value.id \notin ListQueryIds(kv, Str(last.read[p]), <<p>>)
            /\ Has(kv, Row(p, last.res.value[p]))
            /\ kv[Row(p, last.res.value[p])] = last.res.value)

\* The rows of C3 without the listing: after updateQuery changes the value
\* of an indexed property p of E from old to new, the row `p--old` no longer
\* exists and the row `p--new` holds the merged entity; the listing of index
\* p at old, a listing of the rows under the prefix `p--old`, contains E
\* when the string of new starts with the string of old.
UpdateMovesIndexRow ==
    \A p \in Props :
        UpdateChanged(p)
        => (/\ ~Has(kv, Row(p, last.read[p]))
            /\ ReadByIndex(p, last.read[p]) = NotFound
            /\ Has(kv, Row(p, last.res.value[p]))
            /\ kv[Row(p, last.res.value[p])] = last.res.value
            /\ IsPrefix(Str(last.read[p]), Str(last.res.value[p]))
                  => last.res.value.id \in ListQueryIds(kv, Str(last.read[p]), <<p>>))

\* The index rows that carry the id of the entity stored at `key`.
RowsOf(key) ==
    {r \in DOMAIN kv :
        \E p \in Props, v \in Vals : Declared(p) /\ r = Row(p, v) /\ kv[r].id = key}

\* C4: after removeQuery({key}) succeeds for an entity E, no index row
\* `p--v` written for E remains, for every declared index p; the same holds
\* for every key passed to batchRemove.
C4_RemoveDeletesIndexRows ==
    /\ (Returned("remove") /\ last.res.ok) => RowsOf(last.req.key) = {}
    /\ Returned("batchRemove") => \A i \in 1..Len(last.req) : RowsOf(last.req[i]) = {}

\* The merged value of an entry of the batch update that has just returned:
\* { ...(stored value, or {id: key}), ...patch }.
MergedValue(key) ==
    Merge(IF Has(last.read, key) THEN last.read[key] ELSE [id |-> key],
          last.req.entries[key])

\* C5: after batchUpdate or batchUpsert, for every entry and every declared
\* index on a property p present in the entry's merged value, the row `p--v`
\* holds the merged value (also when the patch does not mention p, and when
\* two entries exchange their indexed values), and every index row of a
\* changed previous value has been deleted (unless it is now the row of
\* another entry).  (Stated for merged values of p no other entry has.)
C5_BatchUpdateMaintainsIndexRows ==
    ((Returned("batchUpdate") \/ Returned("batchUpsert")) /\ last.res.ok)
    => \A key \in Written, p \in Props :
          LET merged == MergedValue(key)
              others == {MergedValue(o) : o \in Written \ {key}}
              held(v) == \E m \in others : p \in DOMAIN m /\ m[p] = v
          IN  Declared(p)
              => /\ (p \in DOMAIN merged /\ ~held(merged[p]))
                    => (Has(kv, Row(p, merged[p])) /\ kv[Row(p, merged[p])] = merged)
                 /\ (/\ Has(last.read, key)
                     /\ p \in DOMAIN last.read[key]
                     /\ last.read[key][p] # merged[p]
                     /\ ~held(last.read[key][p]))
                    => ~Has(kv, Row(p, last.read[key][p]))

\* The storage after createQuery({key, value: input[key]}) for every key in
\* turn.
RECURSIVE CreateEach(_, _, _, _)
CreateEach(store, snapshot, input, keys) ==
    IF keys = <<>> THEN store
    ELSE CreateEach(
             PutAll(store, EnhanceWritePayload(snapshot, Head(keys),
                                               WithId(input[Head(keys)], Head(keys)))),
             snapshot, input, Tail(keys))

\* C6: batchCreate(entries) leaves the storage as createQuery applied to each
\* entry does (so under every index key of an entry it stores the record
\* stored under the entry's primary key, same id and properties), and it
\* returns one record per input key and none for index keys.
C6_BatchCreateAsCreates ==
    [][Returns("batchCreate")
       => LET input == last'.req.entries
              keys == ObjectKeys(DOMAIN input)
          IN  /\ kv' = CreateEach(kv, indexes, input, keys)
              /\ last'.res.ok
              /\ last'.res.value = [i \in 1..Len(keys) |-> kv'[keys[i]]]]_vars

---------------------------------------------------------------------------
(* Properties of the relationship engine *)

Exists == [ok |-> TRUE, exists |-> TRUE]

\* C7: after createRelationship(a, b, aToB, bToA) returns success,
\* hasRelationship({nodeA: a, nodeB: b, name: aToB}) and
\* hasRelationship({nodeA: b, nodeB: a, name: bToA}) both return
\* exists: true, whatever edges existed before.
C7_CreatedEdgeIsFound ==
    (Returned("createRelationship") /\ last.res.ok)
    => LET e == last.req
       IN  /\ HasRelationship(kv, e.nodeA, e.nodeB, e.nodeAToBRelationshipName) = Exists
           /\ HasRelationship(kv, e.nodeB, e.nodeA, e.nodeBToARelationshipName) = Exists

\* C7 happens: createRelationship has returned for an edge whose two ends
\* both had other neighbours under the names of the edge.
C7_Witness ==
    /\ Returned("createRelationship")
    /\ last.res.ok
    /\ Len(kv[Id(last.req.nodeAToBRelationshipName, last.req.nodeA)]) >= 2
    /\ Len(kv[Id(last.req.nodeBToARelationshipName, last.req.nodeB)]) >= 2

\* C8: in every state, for every edge (a, b, aToB, bToA) created by
\* createRelationship or createRelationshipBatch and not removed since, the
\* set `relationship$a$aToB` contains b, the set `relationship$b$bToA`
\* contains a, and both name-mapping rows exist, `relationship-name$aToB`
\* giving bToA and `relationship-name$bToA` giving aToB.
C8_EdgeRowsExist ==
    ~run.active
    => \A e \in edges :
          LET aToB == e.nodeAToBRelationshipName
              bToA == e.nodeBToARelationshipName
          IN  /\ e.nodeB \in Members(GetSet(kv, Id(aToB, e.nodeA)))
              /\ e.nodeA \in Members(GetSet(kv, Id(bToA, e.nodeB)))
              /\ Has(kv, MappingId(aToB)) /\ kv[MappingId(aToB)] = bToA
              /\ Has(kv, MappingId(bToA)) /\ kv[MappingId(bToA)] = aToB

\* hasRelationship answers exists: false or NotFound.
Gone(result) == ~result.ok \/ ~result.exists

\* C9: after removeQuery({key: a}) succeeds, for every directional name r and
\* every node x that was a neighbour of a under r,
\* hasRelationship({nodeA: x, nodeB: a, name: inverse(r)}) returns
\* exists: false or NotFound, and listRelationship for node a returns no
\* neighbours under any name, however the edges were created.
C9_RemoveQueryRemovesEdges ==
    [][(Returns("remove") /\ last'.res.ok)
       => LET a == last'.req.key
          IN  /\ \A e \in edges :
                    /\ e.nodeA = a
                       => Gone(HasRelationship(kv', e.nodeB, a, e.nodeBToARelationshipName))
                    /\ e.nodeB = a
                       => Gone(HasRelationship(kv', e.nodeA, a, e.nodeAToBRelationshipName))
              /\ \A name \in Names : ListRelationship(kv', name, a) = <<>>]_vars

\* The neighbour sets stored: the rows under `relationship$`.
RelationshipSets(store) == List(store, <<"relationship", "$">>)

\* The neighbours stored for every node and name (no set and an empty set
\* both give no neighbours).
Neighbours(store) ==
    [node \in Nodes, name \in Names |-> Members(ListRelationship(store, name, node))]

\* C10: after batchRemoveNode (or batchRemove of entities) for nodes n1..nk,
\* whose per-node cleanups run concurrently, no remaining relationship set
\* contains any ni, and the final state equals that of removing the nodes
\* one at a time.  (States are compared by the neighbours they store.)
C10_BatchRemoveAsOneByOne ==
    AllDone
    => /\ \A id \in RelationshipSets(kv), i \in 1..Len(run.nodes) :
              run.nodes[i] \notin Members(kv[id])
       /\ Neighbours(kv)
            = Neighbours(ClearAllInTurn([kv |-> run.pre, cache |-> EmptyMap], run.nodes).kv)

---------------------------------------------------------------------------
(* Properties of the handlers' error cases and frames *)

\* C16: batchUpdate given at least one key that has no stored entity returns
\* NotFound and writes nothing: no entity row or index row is created,
\* changed or deleted.
C16_BatchUpdateMissingKeyAborts ==
    [][(/\ Returns("batchUpdate")
        /\ \E key \in DOMAIN last'.req.entries : ~Has(kv, key))
       => (last'.res = NotFound /\ kv' = kv)]_vars

\* C17: updateQuery on a key with no stored entity returns NotFound and
\* leaves the storage unchanged; on an existing entity it stores and returns
\* the shallow union of the current value and the patch: the properties of
\* the patch have the patch's values and every property absent from the
\* patch keeps its current value.
C17_UpdateMergesOrNotFound ==
    [][Returns("update")
       => LET key == last'.req.key
              patch == last'.req.value
          IN  IF ~Has(kv, key)
              THEN last'.res = NotFound /\ kv' = kv
              ELSE /\ Has(kv', key)
                   /\ last'.res = Ok(kv'[key])
                   /\ DOMAIN kv'[key] = DOMAIN kv[key] \cup DOMAIN patch
                   /\ \A p \in DOMAIN patch : kv'[key][p] = patch[p]
                   /\ \A p \in DOMAIN kv[key] \ DOMAIN patch : kv'[key][p] = kv[key][p]]_vars

\* C17 happens: updateQuery has returned the union for an entity of which it
\* changed one property and kept another that the patch does not mention.
C17_Witness ==
    /\ Returned("update")
    /\ last.res.ok
    /\ \E p \in DOMAIN last.req.value : p \in DOMAIN last.read /\ last.read[p] # last.req.value[p]
    /\ \E p \in Props : p \in DOMAIN last.read /\ p \notin DOMAIN last.req.value
    /\ kv[last.req.key] = last.res.value

\* The rows removeQuery({key}) asks the storage to delete.
RemoveKeys(key) == {key} \cup EnhanceDeletePayload(indexes, key)

\* C18: removeQuery whose delete affects zero rows returns DeleteFailed,
\* leaves the storage unchanged and does not run the relationship cascade
\* (the node's sets stay as they were); in every other case it returns
\* success, and when it returns the cascade for the node has completed: the
\* rows asked for are deleted and no relationship set of the node is left.
C18_RemoveFailsOrCascades ==
    [][Returns("remove")
       => LET key == last'.req.key
          IN  IF RemoveKeys(key) \cap DOMAIN kv = {}
              THEN last'.res = DeleteFailed /\ kv' = kv
              ELSE /\ last'.res = Success
                   /\ RemoveKeys(key) \cap DOMAIN kv' = {}
                   /\ RelationsRightIds(kv', key) = {}]_vars

\* C18 happens: removeQuery has returned success for an entity whose node
\* had relationship sets, which the cascade listed and deleted.
C18_Witness ==
    /\ Returned("remove")
    /\ last.res = Success
    /\ last.read # EmptyMap
    /\ RelationsRightIds(kv, last.req.key) = {}

\* The removals a list of requests asks for: <<set, member>> for both
\* directions of every request.
Removals(requests) ==
    UNION {{<<Id(requests[i].nodeAToBRelationshipName, requests[i].nodeA), requests[i].nodeB>>,
            <<Id(requests[i].nodeBToARelationshipName, requests[i].nodeB), requests[i].nodeA>>} :
              i \in 1..Len(requests)}

\* After the step, every set named in a removal has lost exactly the members
\* to remove, and every other relationship set is stored as it was.
RemovedOnly(removals) ==
    /\ \A r \in removals :
          Members(GetSet(kv', r[1]))
            = Members(GetSet(kv, r[1])) \ {q[2] : q \in {x \in removals : x[1] = r[1]}}
    /\ \A id \in (RelationshipSets(kv) \cup RelationshipSets(kv')) \ {r[1] : r \in removals} :
          Has(kv, id) /\ Has(kv', id) /\ kv'[id] = kv[id]

\* C19: removeRelationship(a, b, aToB, bToA) removes b from a's aToB set and
\* a from b's bToA set and leaves every other member of those sets and every
\* other relationship set unchanged; removeRelationshipBatch does the same
\* for each listed edge.
C19_RemoveRelationshipFrame ==
    [][/\ Returns("removeRelationship") => RemovedOnly(Removals(<<last'.req>>))
       /\ Returns("removeRelationshipBatch") => RemovedOnly(Removals(last'.req))]_vars

\* C19 happens: removeRelationship has taken b out of a set of a that had
\* another member, which is still there.
C19_Witness ==
    /\ Returned("removeRelationship")
    /\ LET id == Id(last.req.nodeAToBRelationshipName, last.req.nodeA)
       IN  /\ Has(last.read, id)
           /\ last.req.nodeB \in Members(last.read[id])
           /\ Len(last.read[id]) >= 2
           /\ Len(kv[id]) = Len(last.read[id]) - 1
           /\ last.req.nodeB \notin Members(kv[id])

---------------------------------------------------------------------------
(* Properties of pagination *)

\* The position of a member in a set, from 1.
PositionOf(set, member) == CHOOSE i \in 1..Len(set) : set[i] = member

\* C20: listRelationship over the neighbours in insertion order returns
\* exactly the contiguous run from the position after `after` (or the first
\* position without after) to the position before `before` (or the last
\* position without before), cut by first to at most `first` elements from
\* its start, also when a cursor is given without first or last; hasBefore
\* is true iff the run starts after the first position and hasAfter iff it
\* ends before the last position.  (Stated for requests without `last`.)
C20_ListReturnsTheRun ==
    (Returned("listRelationship") /\ last.res.ok /\ last.req.last = 0)
    => LET set == GetSet(kv, Id(last.req.name, last.req.node))
           from == IF last.req.after # <<>> THEN PositionOf(set, last.req.after) + 1 ELSE 1
           end == IF last.req.before # <<>> THEN PositionOf(set, last.req.before) - 1
                  ELSE Len(set)
           to == IF last.req.first # 0 /\ from + last.req.first - 1 < end
                 THEN from + last.req.first - 1 ELSE end
       IN  /\ last.res.value.relationships = SubSeq(set, from, to)
           /\ last.res.value.hasBefore = (from > 1)
           /\ last.res.value.hasAfter = (to < Len(set))

---------------------------------------------------------------------------
(* Properties of backup and restore *)

\* C12: if backup() returned the name B in storage state X, then after any
\* further mutations (purgeAllQuery among them), once restore({backupId: B})
\* has returned, the storage equals X: every key of X (entity rows, index
\* rows, index declarations, neighbour sets and name mappings) has its
\* backed-up value and no other key exists.
C12_RestoreGivesBackTheStorage ==
    (Returned("restore") /\ last.res.ok)
    => kv = images[last.req.backupId]

\* The step in which restore runs and finds its blob.
Restores == last'.op = "restore" /\ last'.res.ok /\ now' = now + 1

---------------------------------------------------------------------------
(* Properties of the read handlers and the read cache *)

\* An entry of the cache agrees with the storage: an entry a listing left
\* under its prefix holds the rows now stored under the prefix, any other
\* entry the value now stored under its key.
Coherent(key) ==
    IF "list" \in DOMAIN cache[key]
    THEN cache[key] = Listing(ListMap(kv, key))
    ELSE Has(kv, key) /\ cache[key] = kv[key]

\* C11: under any interleaving of read handlers (readQuery, batchRead,
\* listQuery) with mutating handlers, once all handlers have returned, every
\* entry of the read cache equals the value currently stored under that key:
\* a read that missed the cache before a write started never installs the
\* pre-write value after the write's invalidation.
C11_CacheAgreesWithStorage ==
    (reads = {} /\ ~run.active) => \A key \in DOMAIN cache : Coherent(key)


\* C14: after purgeAllQuery has returned, and until the next write, the
\* storage is empty: listQuery returns an empty mapping for every key and
\* index, every readQuery returns NotFound (no value is served from the read
\* cache), and every backup blob holds what it held when it was written.
C14_PurgeEmptiesTheStore ==
    purged =>
        /\ kv = EmptyMap
        /\ \A key \in Keys \cup {<<>>}, index \in {<<>>, <<"a">>} :
               ListQueryIds(kv, key, index) = {}
        /\ \A key \in Keys, index \in {<<>>, <<"a">>} :
               ReadQuery(kv, cache, key, index) = NotFound
        /\ \A name \in DOMAIN images :
               Has(blobs, name) /\ blobs[name] = Stringify(images[name])


\* C15: batchRead(keys) returns an array as long as keys whose i-th element
\* is the value stored under the i-th resolved key when the storage is read,
\* or undefined when the key has no value; a miss is no error; keys may
\* repeat and may be more than one call of the storage takes.
C15_BatchReadByPosition ==
    Returned("batchRead") =>
        LET keys == last.req.keys
            key(i) == KeyFromQuery(keys[i], last.req.index)
        IN  /\ last.res.ok
            /\ Len(last.res.value) = Len(keys)
            /\ \A i \in 1..Len(keys) :
                   last.res.value[i] =
                       IF Has(last.read, key(i)) THEN last.read[key(i)] ELSE Undefined


\* C21: listRelationship with last = n returns the final min(n, m)
\* neighbours of the m-element window that ends at the end position (the
\* position before `before`, or the last position without before): all m of
\* them when n >= m, in insertion order.
C21_ListLastReturnsTheTail ==
    (Returned("listRelationship") /\ last.res.ok /\ last.req.last # 0)
    => LET set == GetSet(kv, Id(last.req.name, last.req.node))
           m == IF last.req.before # <<>> THEN PositionOf(set, last.req.before) - 1
                ELSE Len(set)
           n == last.req.last
       IN  last.res.value.relationships = SubSeq(set, IF n >= m THEN 1 ELSE m - n + 1, m)


---------------------------------------------------------------------------
(* Properties of the listings *)

\* The step in which the handler `op` returns, in one step or after an await.
Answers(op) ==
    /\ last'.op = op /\ ~run'.active
    /\ \/ steps' = steps + 1 /\ reads' = reads
       \/ reads' # reads /\ reads' \subseteq reads

GivenSize(req, field) == field \in DOMAIN req /\ req[field] # 0

GivenCursor(req, field) == field \in DOMAIN req /\ req[field] # <<>>

\* first with before, last with after, or first with last
Forbidden(req) ==
    \/ GivenSize(req, "first") /\ GivenCursor(req, "before")
    \/ GivenSize(req, "last") /\ GivenCursor(req, "after")
    \/ GivenSize(req, "first") /\ GivenSize(req, "last")

\* C22: for every request, listRelationship and listQuery given first
\* together with before, last together with after, or first together with
\* last return BadRequest and change no state.
C22_ForbiddenCombinationsAreBadRequests ==
    [][((Answers("list") \/ Answers("listRelationship")) /\ Forbidden(last'.req))
       => (last'.res = BadRequest /\ UNCHANGED <<kv, indexes, cache, blobs>>)]_vars


\* The request names a cursor that is no neighbour in the node's set.
UnknownCursor(req) ==
    LET set == GetSet(kv, Id(req.name, req.node))
    IN  \/ req.after # <<>> /\ req.after \notin Members(set)
        \/ req.before # <<>> /\ req.before \notin Members(set)

\* C23: listRelationship (without a forbidden combination of arguments) with
\* an after or before cursor that is not a member of the node's neighbour
\* set returns NotFound, also when the node has no neighbour set at all.
C23_UnknownCursorIsNotFound ==
    (Returned("listRelationship") /\ ~Forbidden(last.req) /\ UnknownCursor(last.req))
    => last.res = NotFound

\* A node with neighbours was listed from a cursor that is none of them.
C23_Witness ==
    /\ Returned("listRelationship") /\ ~Forbidden(last.req) /\ UnknownCursor(last.req)
    /\ GetSet(kv, Id(last.req.name, last.req.node)) # <<>>
    /\ last.res = NotFound


\* What listRelationship returns for a request over the stored values.
ListOver(store, request) ==
    PaginateRelationships(GetSet(store, Id(request.name, request.node)),
                          request.first, request.last, request.before, request.after)

\* C24: batchList returns exactly one page per request, in request order,
\* and the i-th page equals what listRelationship returns for the i-th
\* request, also when a requested (node, name) has no stored set, when two
\* requests name the same (node, name), and when sets are served from the
\* read cache.  (Stated for batches of requests each of which listRelationship
\* answers with a page.)
C24_BatchListAsLists ==
    LET requests == last.req.requests
    IN  (Returned("batchList") /\ \A i \in 1..Len(requests) : ListOver(last.read, requests[i]).ok)
        => /\ last.res.ok
           /\ Len(last.res.value) = Len(requests)
           /\ \A i \in 1..Len(requests) :
                  last.res.value[i] = ListOver(last.read, requests[i]).value

\* C25: in batchList, a request whose pagination fails (forbidden
\* combination or unknown cursor) yields the empty page for that request
\* only; the batch as a whole succeeds.
C25_FailedPageIsEmpty ==
    LET requests == last.req.requests
    IN  Returned("batchList")
        => /\ last.res.ok
           /\ Len(last.res.value) = Len(requests)
           /\ \A i \in 1..Len(requests) :
                  ~ListOver(last.read, requests[i]).ok => last.res.value[i] = EmptyPage


\* The keys under the prefix that the claim describes for a request: those
\* after `after` and before `before`, and of these the `first` smallest or
\* the `last` largest.
KeysClaimed(store, req) ==
    LET smallest(window, n) == {k \in window : Cardinality({j \in window : Less(j, k)}) < n}
        largest(window, n) == {k \in window : Cardinality({j \in window : Less(k, j)}) < n}
        cut(window) == IF req.first # 0 THEN smallest(window, req.first)
                       ELSE IF req.last # 0 THEN largest(window, req.last)
                       ELSE window
    IN  UNION {cut(window) :
                  window \in {{k \in List(store, KeyFromQuery(req.key, req.index)) :
                                  /\ req.after = <<>> \/ Less(req.after, k)
                                  /\ req.before = <<>> \/ Less(k, req.before)}}}

\* C26: listQuery over a key prefix, in key order: first = n returns the n
\* smallest entries, last = n the n largest, after = c every entry with key
\* greater than c, before = c every entry with key smaller than c, first with
\* after (last with before) the n entries adjacent to the cursor, and without
\* any of these every entry under the prefix.
C26_ListQueryPages ==
    Returned("list") =>
        IF "first" \in DOMAIN last.req
        THEN (last.req.query = <<>> /\ ~Forbidden(last.req))
             => \E claimed \in {KeysClaimed(last.read, last.req)} :
                    last.res = Ok(Response([k \in claimed |-> last.read[k]]))
        ELSE last.res = Ok(ListQueryIds(last.read, last.req.key, last.req.index))


\* C27: listQuery with range predicates returns exactly the entities stored
\* under the key prefix whose value matches every predicate
\* (min <= value[property] <= max), whatever reads or lists were served
\* before it.
C27_RangeQueryMatchesTheStore ==
    (Returned("list") /\ "query" \in DOMAIN last.req /\ last.req.query # <<>>)
        => \E stored \in {ListMap(last.read, KeyFromQuery(last.req.key, last.req.index))} :
               last.res = Ok(Response(Filter(stored, last.req.query)))


(* ---- Properties of the client transport ---- *)

\* A call that the transport may repeat: a 5xx response or an exception.
Failed(outcome) == outcome.thrown \/ outcome.status \in 500..599

\* The attempts made for the request in flight.
Attempts == Len(transport.outcomes)

\* C28: the client transport retries a request only while the response is
\* 5xx (or the call throws), makes at most 3 attempts in total, and waits
\* 100 ms before the first retry, the wait doubling on each further retry.
C28_TransportRetries ==
    /\ \A i \in 1..(Attempts - 1) : Failed(transport.outcomes[i])
    /\ transport.pc = "returned" => ~Failed(transport.outcomes[Attempts])
    /\ Attempts <= 3
    /\ \A i \in 1..Len(transport.waits) : transport.waits[i] = 100 * 2 ^ (i - 1)


(* ---- Properties of the cache invalidation ---- *)

\* A step in which a handler starts and writes to the storage.
WritesStorage == steps' = steps + 1 /\ kv' # kv

\* C29: every mutating operation of every subsystem (entity, relationship,
\* index, store restore) clears the whole read cache before its first write
\* to the storage: when the handler has written, the cache holds at most the
\* rows that the handler wrote, as it wrote them.
C29_MutationsClearTheCache ==
    [][WritesStorage =>
          \A key \in DOMAIN cache' : key \in DOMAIN kv' /\ cache'[key] = kv'[key]]_vars


(* ---- Properties of the reads after listings ---- *)

\* A value of the read cache that a listing has put there.
IsListing(value) == value # Undefined /\ "list" \in DOMAIN value

\* C30: readQuery({key: k}) and batchRead return for key k the entity stored
\* under k, or NotFound (undefined in a batch), never the result of a list:
\* an earlier unfiltered listQuery or range query whose prefix is k does not
\* change what a later read of k returns.
C30_ReadsNeverReturnListings ==
    /\ (Returned("read") /\ last.res.ok) => ~IsListing(last.res.value)
    /\ (Returned("batchRead") /\ last.res.ok)
           => \A i \in 1..Len(last.res.value) : ~IsListing(last.res.value[i])


(* ---- Properties of concurrent handlers ---- *)

\* The storage after doBatchUpdate has run alone on `store`.
BatchUpdated(store, input) ==
    LET read == DoChunkedRead(store, EmptyMap, DOMAIN input)
        loop == BatchUpdateLoop(indexes, input, read.items, ObjectKeys(DOMAIN input),
                                [entries |-> EmptyMap, dangling |-> {}])
    IN  Delete(PutAll(store, loop.entries), loop.dangling)

\* The handler of r writes in this step; since it read, exactly the batch
\* update that returned last has written.
SecondOfTwo(r) ==
    /\ r \in reads /\ r.op \in {"batchUpdate", "batchUpsert"} /\ r \notin reads'
    /\ last.op \in {"batchUpdate", "batchUpsert"}
    /\ last.read = r.pre
    /\ kv = BatchUpdated(r.pre, last.req.entries)

\* C31: when two mutating handlers run concurrently on one partition (two
\* batch updates of one key, two createRelationshipBatch calls adding to one
\* neighbour set), the final storage is that of running them one after the
\* other in some order: no patch and no added neighbour is lost.
C31_ConcurrentHandlersSerialize ==
    [][/\ \A r \in reads :
              SecondOfTwo(r) =>
                  kv' \in {BatchUpdated(kv, r.req.entries),
                           BatchUpdated(BatchUpdated(r.pre, r.req.entries), last.req.entries)}
       /\ reads' = {} =>
              \A id \in {Id(h[2], h[1]) : h \in UNION {Halves(e) : e \in edges'}} :
                  Members(GetSet(kv', id)) =
                      {h[3] : h \in {x \in UNION {Halves(e) : e \in edges'} :
                                        Id(x[2], x[1]) = id}}]_vars


(* ---- Properties of the index snapshot ---- *)

\* C32: whenever an entity handler starts, the in-memory snapshot of the
\* index handler equals the index declarations stored under "idx:": after
\* createIndex, updateIndex and removeIndex, and also after purgeAllQuery
\* and restore.
C32_SnapshotEqualsStoredIndexes ==
    ~run.active => indexes = SyncIndexes(kv)


(* ---- Properties of the chunked operations ---- *)

\* The keys of the calls, one call after the other.
RECURSIVE Flatten(_)
Flatten(calls) == IF calls = <<>> THEN <<>> ELSE Head(calls) \o Flatten(Tail(calls))

\* A chunked operation runs in this step.
Chunked(op) == last'.op = op /\ steps' = steps + 1

\* C33: for every input size, in particular exactly the limit and one more,
\* the chunked read, write and delete issue calls of at most 128 keys each,
\* every input key (of a read: every key the cache misses) is in exactly one
\* call, and the resulting storage and the result of the read equal those of
\* a single unchunked operation on the same input.
C33_ChunkedAsUnchunked ==
    [][/\ \A op \in {"doChunkedRead", "doChunkedWrite", "doChunkedDelete"} :
              Chunked(op) => \A i \in 1..Len(last'.res.calls) :
                                 Len(last'.res.calls[i]) \in 1..128
       /\ Chunked("doChunkedRead") =>
              /\ Flatten(last'.res.calls)
                     = SelectSeq(last'.req.keys, LAMBDA k : ~CacheHit(cache, k))
              /\ last'.res.value = DoChunkedRead(kv, cache, Members(last'.req.keys)).items
              /\ kv' = kv
       /\ Chunked("doChunkedWrite") =>
              /\ Flatten(last'.res.calls) = ObjectKeys(DOMAIN last'.req.entries)
              /\ kv' = DoChunkedWrite(kv, cache, last'.req.entries).kv
       /\ Chunked("doChunkedDelete") =>
              /\ Flatten(last'.res.calls) = last'.req.keys
              /\ kv' = DoChunkedDelete(kv, cache, Members(last'.req.keys)).kv]_vars

\* One key more than a call takes has been written over a non-empty store,
\* in two calls.
C33_Witness ==
    /\ last.op = "doChunkedWrite"
    /\ Cardinality(DOMAIN last.req.entries) = ITEM_LIMIT + 1
    /\ Len(last.res.calls) = 2
    /\ last.read # EmptyMap


(* ---- Frame of removeNode and removeQuery ---- *)

\* The neighbour set of node m under `name` keeps, in this step, every
\* member other than n, and gains none.
KeepsSet(name, m, n) ==
    /\ Members(GetSet(kv, Id(name, m))) \ {n} \subseteq Members(GetSet(kv', Id(name, m)))
    /\ Members(GetSet(kv', Id(name, m))) \subseteq Members(GetSet(kv, Id(name, m)))

\* C34: removeNode(n) changes only the relationship sets of n itself
\* (deleted) and the mirror sets of n's neighbours (n removed from them):
\* every set of any other node m keeps all its members other than n, also
\* when the identifier of m has n as a string prefix.
C34_RemoveNodeFrame ==
    [][Returns("removeNode") =>
          \A m \in Nodes \ {last'.req.node}, name \in Names :
              KeepsSet(name, m, last'.req.node)]_vars


\* The rows of the entity stored at k: its primary row and the index rows
\* that hold it.
RowsOfEntity(k) ==
    {k} \cup {row \in GetIndexedKeys(indexes, kv[k]) \cap DOMAIN kv : kv[row] = kv[k]}

\* C35: removeQuery({key}) deletes only rows of the entity stored at key: the
\* primary row and the index rows of every other stored entity are unchanged,
\* also when key coincides with another entity's value of an indexed property.
C35_RemoveQueryFrame ==
    [][Returns("remove") =>
          \A k \in (Keys \cap DOMAIN kv) \ {last'.req.key} :
              \A row \in RowsOfEntity(k) :
                  row \in DOMAIN kv' /\ kv'[row] = kv[row]]_vars


(* ---- Name mapping ---- *)
\* C36: the name mapping is a consistent pairing: when relationship-name$x
\* holds y, relationship-name$y holds x, also after one directional name was
\* used with two different inverse names.
C36_NameMappingIsAPairing ==
    \A x \in Names :
        Has(kv, MappingId(x)) =>
            /\ Has(kv, MappingId(kv[MappingId(x)]))
            /\ kv[MappingId(kv[MappingId(x)])] = x


(* ---- updateIndex ---- *)
\* The index row of value for property p.
RowOf(p, value) == KeyForIndex(p, PropStr(value, p))

\* C37: after updateIndex({id, property: p}) the declaration stored at id has
\* property p and id idx:p, the listing of the indexes shows it under id, and
\* an entity write that follows, of a value that contains p, produces the
\* index row `p--value[p]`.
C37_UpdateIndexTakesEffect ==
    [][/\ Returns("updateIndex") =>
              /\ Has(kv', last'.req.id)
              /\ kv'[last'.req.id] = [id |-> IdxKey(last'.req.property),
                                      property |-> last'.req.property]
              /\ Has(SyncIndexes(kv'), last'.req.id)
              /\ SyncIndexes(kv')[last'.req.id] = kv'[last'.req.id]
       /\ /\ last.op = "updateIndex"
          /\ Returns("create") \/ Returns("update")
          /\ last'.res.ok
          /\ last.req.property \in DOMAIN last'.res.value
          => /\ Has(kv', RowOf(last.req.property, last'.res.value))
             /\ kv'[RowOf(last.req.property, last'.res.value)] = last'.res.value]_vars


(* ---- createRelationshipBatch against createRelationship ---- *)
\* createRelationship applied to the elements of a list one by one: the
\* neighbour sets it leaves.
RECURSIVE OneByOne(_, _)
OneByOne(store, input) ==
    IF input = <<>> THEN store
    ELSE LET nodeAId == Id(input[1].nodeAToBRelationshipName, input[1].nodeA)
             nodeBId == Id(input[1].nodeBToARelationshipName, input[1].nodeB)
             s1 == AddRelationship(store, nodeAId, input[1].nodeB)
         IN  OneByOne(AddRelationship(s1, nodeBId, input[1].nodeA), Tail(input))

SetIds == {Id(name, m) : name \in Names, m \in Nodes}

\* C38: createRelationshipBatch(L) leaves every neighbour set equal to the set
\* obtained by applying createRelationship to the elements of L one by one:
\* each pair is added once and existing members are kept, also when several
\* elements touch the same set or both directions of an element address it.
C38_BatchAsOneByOne ==
    [][Returns("createRelationshipBatch") =>
          \A ref \in {OneByOne(kv, last'.req)} :
              \A id \in SetIds :
                  /\ Has(kv', id) <=> Has(ref, id)
                  /\ Members(GetSet(kv', id)) = Members(GetSet(ref, id))
                  /\ Len(GetSet(kv', id)) = Cardinality(Members(GetSet(kv', id)))]_vars

\* A batch of two elements on one neighbour set of node "1": one
\* element addresses the set in both directions, the other adds to it, and a
\* member stored before is kept.
C38_Witness ==
    /\ Returned("createRelationshipBatch")
    /\ Len(last.req) = MaxBatch
    /\ \E i \in 1..Len(last.req) :
           RelationsRight(last.req)[i][1] = RelationsLeft(last.req)[i][1]
    /\ RelationsRight(last.req)[1][1] = RelationsRight(last.req)[MaxBatch][1]
    /\ Cardinality(Members(GetSet(kv, RelationsRight(last.req)[1][1]))) = MaxBatch + 1


(* ---- Properties of retry ---- *)
\* A call of the callback that retry takes for a failure: an exception, or a
\* response that shouldRetryOnSuccess accepts.
Caught(opts, outcome) ==
    outcome.thrown \/ (opts.shouldRetryOnSuccess = "5xx" /\ ShouldRetryOnSuccess(outcome))

\* C39: retry terminates for every callback and every options value: the
\* callback is invoked at most maxRetries + 1 times, after which retry
\* returns the last, successful, response or throws RetryExhaustedError; a
\* failure for which shoudlRetryOnFailure returns false is not retried.
C39_RetryTerminates ==
    /\ Attempts <= transport.opts.maxRetries + 1
    /\ transport.pc = "returned" => ~Caught(transport.opts, transport.outcomes[Attempts])
    /\ transport.pc = "thrown" => Caught(transport.opts, transport.outcomes[Attempts])
    /\ \A i \in 1..Len(transport.waits) :
           ShoudlRetryOnFailure(transport.opts, transport.outcomes[i])

=============================================================================
